---------------------------- MODULE Spec2Model ----------------------------
(***************************************************************************)
(* Model of the Lucy backend: the conversation session store               *)
(* (conversation_manager.py), the turn handlers of the HTTP service        *)
(* (main.py), the speech cache (tts_handler.py) and the expression parser  *)
(* (expression_parser.py).                                                 *)
(*                                                                         *)
(* Python strings are modelled as sequences of one-character strings.      *)
(***************************************************************************)
EXTENDS Integers, Sequences, FiniteSets, TLC

(***************************************************************************)
(* Bounds of the model.                                                    *)
(***************************************************************************)
MaxN == 2
MaxCalls == 5
MaxClock == 1

(***************************************************************************)
(* The dictionaries of ConversationManager, the wall clock read by         *)
(* datetime.now(), a record of the last call made on the manager, and for  *)
(* each user the messages add_message was given, in order, since the       *)
(* session was created or last cleared by a direct call on the manager.    *)
(***************************************************************************)
VARIABLES max_history, conversations, metadata, clock, calls, lastCall, appended

(***************************************************************************)
(* The expression parser applied to one text: the text, the result of      *)
(* parse on it, the result of parse on that result's clean text, and what  *)
(* extract_expressions and remove_expressions returned for the text.       *)
(***************************************************************************)
VARIABLES p_text, p_phase, p_tags, p_clean, p_tags2, p_clean2,
          p_extracted, p_removed

(***************************************************************************)
(* TTSHandler: the cache dictionary, the tts_*.wav files of the output     *)
(* directory with their modification times, the number of calls made to    *)
(* the synthesis engine, the last call made on the handler with its        *)
(* outcome, and the references returned to callers since the last          *)
(* clear_cache or cleanup_old_files.                                       *)
(***************************************************************************)
VARIABLES cache, files, engine_calls, tts_last, served

(***************************************************************************)
(* _generate_cache_key applied to one text and two tags in both orders.    *)
(***************************************************************************)
VARIABLES k_text, k_a, k_b, k_phase, k_ab, k_ba

(***************************************************************************)
(* The HTTP service: its configuration, the requests in flight with the    *)
(* position and local variables of each handler, the request that holds   *)
(* the event loop, and the collaborators each running turn has called.     *)
(***************************************************************************)
VARIABLES stt_mode, tts_on, pc, req, loop, local, snap, started, collab

(***************************************************************************)
(* WakeWordDetector: the list of wake phrases, the answers detect gave for *)
(* the transcripts it was called with since the list was last written, and *)
(* the last call made on the detector with the number of calls so far,     *)
(* and the list get_wake_words last returned, as its caller now holds it.  *)
(***************************************************************************)
VARIABLES wake_words, w_seen, w_last, w_returned

cmVars == <<max_history, conversations, metadata, clock, calls, lastCall, appended>>

parseVars ==
  <<p_text, p_phase, p_tags, p_clean, p_tags2, p_clean2, p_extracted, p_removed>>

ttsVars == <<cache, files, engine_calls, tts_last, served>>

keyVars == <<k_text, k_a, k_b, k_phase, k_ab, k_ba>>

turnVars == <<stt_mode, tts_on, pc, req, loop, local, snap, started, collab>>

wakeVars == <<wake_words, w_seen, w_last, w_returned>>

vars == <<cmVars, parseVars, ttsVars, keyVars, turnVars, wakeVars>>

(***************************************************************************)
(* Python str operations on sequences of characters.                       *)
(***************************************************************************)
\* The characters str.strip() and str.split() treat as whitespace.
Whitespace == {" ", "\n", "\t", "\r", "\f"}

IsSpace(c) == c \in Whitespace

UpperLetters ==
  <<"A", "B", "C", "D", "E", "F", "G", "H", "I", "J", "K", "L", "M",
    "N", "O", "P", "Q", "R", "S", "T", "U", "V", "W", "X", "Y", "Z">>

LowerLetters ==
  <<"a", "b", "c", "d", "e", "f", "g", "h", "i", "j", "k", "l", "m",
    "n", "o", "p", "q", "r", "s", "t", "u", "v", "w", "x", "y", "z">>

LowerChar(c) ==
  IF \E i \in 1..Len(UpperLetters) : UpperLetters[i] = c
  THEN LowerLetters[CHOOSE i \in 1..Len(UpperLetters) : UpperLetters[i] = c]
  ELSE c

\* str.lower()
Lower(s) == [i \in 1..Len(s) |-> LowerChar(s[i])]

\* Whether a str holds whitespace only (the empty str does).
OnlyWhitespace(s) == \A i \in 1..Len(s) : IsSpace(s[i])

\* str.lstrip(): the str from its first character that is no whitespace.
LStrip(s) ==
  IF OnlyWhitespace(s) THEN <<>>
  ELSE SubSeq(s, CHOOSE i \in 1..Len(s) :
                   ~IsSpace(s[i]) /\ \A j \in 1..(i - 1) : IsSpace(s[j]),
              Len(s))

\* str.rstrip(): the str up to its last character that is no whitespace.
RStrip(s) ==
  IF OnlyWhitespace(s) THEN <<>>
  ELSE SubSeq(s, 1, CHOOSE i \in 1..Len(s) :
                      ~IsSpace(s[i]) /\ \A j \in (i + 1)..Len(s) : IsSpace(s[j]))

\* str.strip()
Strip(s) == RStrip(LStrip(s))

\* A character of the str that " ".join(s.split()) keeps: a character of a
\* word, or the first of a run of whitespace, which becomes the one blank.
KeptByJoin(m) == m.keep

\* " ".join(words) continued after a word has been emitted: every run of
\* whitespace that a word follows becomes one blank.
JoinWords(s) ==
  LET marked == [i \in 1..Len(s) |->
                   [c |-> IF IsSpace(s[i]) THEN " " ELSE s[i],
                    keep |-> ~IsSpace(s[i]) \/ i = 1 \/ ~IsSpace(s[i - 1])]]
      kept == SelectSeq(marked, KeptByJoin)
  IN  RStrip([i \in 1..Len(kept) |-> kept[i].c])

\* " ".join(s.split())
NormalizeSpaces(s) == JoinWords(LStrip(s))

\* "p in s" on two str values.
IsSubstring(p, s) ==
  \E i \in 0..(Len(s) - Len(p)) : SubSeq(s, i + 1, i + Len(p)) = p

\* All strings of at most n characters over an alphabet.
StringsUpTo(alphabet, n) == UNION {[1..k -> alphabet] : k \in 0..n}

(***************************************************************************)
(* The values each component's variables hold while a specification does   *)
(* not exercise that component.                                            *)
(***************************************************************************)
NoReq == "none"
NoPath == [ts |-> -1, digest |-> <<>>]
NotCalled == [called |-> FALSE, value |-> <<>>]

ParseIdle ==
  /\ p_text = <<>>
  /\ p_phase = "idle"
  /\ p_tags = <<>>
  /\ p_clean = <<>>
  /\ p_tags2 = <<>>
  /\ p_clean2 = <<>>
  /\ p_extracted = NotCalled
  /\ p_removed = NotCalled

TTSIdle ==
  /\ cache = <<>>
  /\ files = <<>>
  /\ engine_calls = 0
  /\ tts_last = [op |-> "init", n |-> 0]
  /\ served = <<>>

KeyIdle ==
  /\ k_text = <<>>
  /\ k_a = <<>>
  /\ k_b = <<>>
  /\ k_phase = "idle"
  /\ k_ab = <<>>
  /\ k_ba = <<>>

TurnIdle ==
  /\ stt_mode = "ok"
  /\ tts_on = TRUE
  /\ pc = <<>>
  /\ req = <<>>
  /\ loop = NoReq
  /\ local = <<>>
  /\ snap = <<>>
  /\ started = 0
  /\ collab = <<>>

CMIdle ==
  /\ max_history = 1
  /\ conversations = <<>>
  /\ metadata = <<>>
  /\ clock = 0
  /\ calls = 0
  /\ lastCall = [op |-> "init", user |-> "u1"]
  /\ appended = <<>>

\* No list has been returned by get_wake_words.
NoList == [held |-> FALSE, value |-> <<>>]

WakeIdle ==
  /\ wake_words = <<>>
  /\ w_seen = <<>>
  /\ w_last = [op |-> "init", n |-> 0]
  /\ w_returned = NoList

Users == {"u1", "u2"}
Roles == {"user", "assistant"}
Contents == {<<"a">>}

\* A metadata key that was never written.
NoTime == -1

\* List slicing seq[-n:] of Python, for n >= 0 (seq[-0:] is the whole list).
\* The slice taken from the wrong end: seq[:n].
FirstN(seq, n) ==
  IF n >= Len(seq) THEN seq ELSE SubSeq(seq, 1, n)

LastN(seq, n) ==
  IF n = 0 \/ n >= Len(seq) THEN seq
  ELSE SubSeq(seq, Len(seq) - n + 1, Len(seq))

\* d[k] = v on a Python dict.
DictPut(d, k, v) == [x \in DOMAIN d \cup {k} |-> IF x = k THEN v ELSE d[x]]

NewMetadata(now) ==
  [created_at |-> now, message_count |-> 0,
   last_updated |-> NoTime, cleared_at |-> NoTime]

\* The lazy creation of a session, shared by get_history and add_message.
EnsureConversations(convs, u) ==
  IF u \in DOMAIN convs THEN convs ELSE DictPut(convs, u, <<>>)

EnsureMetadata(convs, meta, u, now) ==
  IF u \in DOMAIN convs THEN meta ELSE DictPut(meta, u, NewMetadata(now))

\* max_messages = self.max_history * 2
MaxMessagesOdd(n) == n * 2 + 1

MaxMessages(n) == n * 2

\* The trim with its comparison off by one.
TrimLate(seq, n) ==
  IF Len(seq) > MaxMessages(n) + 1 THEN LastN(seq, MaxMessages(n)) ELSE seq

\* The trim at the end of add_message.
Trim(seq, n) ==
  IF Len(seq) > MaxMessages(n) THEN LastN(seq, MaxMessages(n)) ELSE seq

\* ConversationManager.add_message as a function of the two dictionaries.
AddConversations(convs, u, role, content, n) ==
  LET c1 == EnsureConversations(convs, u)
  IN  [c1 EXCEPT ![u] = Trim(Append(@, [role |-> role, content |-> content]), n)]

AddMetadata(convs, meta, u, now) ==
  LET m1 == EnsureMetadata(convs, meta, u, now)
  IN  [m1 EXCEPT ![u].message_count = @ + 1, ![u].last_updated = now]

\* ConversationManager.clear_history.
\* clear_history as it would be if it emptied every session of the store.
ClearConversationsAll(convs, u) ==
  IF u \in DOMAIN convs THEN [x \in DOMAIN convs |-> <<>>] ELSE convs

ClearConversations(convs, u) ==
  IF u \in DOMAIN convs THEN [convs EXCEPT ![u] = <<>>] ELSE convs

\* clear_history as it would be if it started the metadata afresh.
ClearMetadataFresh(convs, meta, u, now) ==
  IF u \in DOMAIN convs
  THEN [meta EXCEPT ![u] = [NewMetadata(now) EXCEPT !.cleared_at = now]]
  ELSE meta

\* clear_history as it would be if it left the counter alone.
ClearMetadataKeepCount(convs, meta, u, now) ==
  IF u \in DOMAIN convs THEN [meta EXCEPT ![u].cleared_at = now] ELSE meta

ClearMetadata(convs, meta, u, now) ==
  IF u \in DOMAIN convs
  THEN [meta EXCEPT ![u].cleared_at = now, ![u].message_count = 0]
  ELSE meta

(***************************************************************************)
(* The session store used on its own: any call, any user, any role.        *)
(***************************************************************************)
InitCM ==
  /\ max_history \in 1..MaxN
  /\ conversations = <<>>
  /\ metadata = <<>>
  /\ clock = 0
  /\ calls = 0
  /\ lastCall = [op |-> "init", user |-> "u1"]
  /\ appended = <<>>
  /\ ParseIdle /\ TTSIdle /\ KeyIdle /\ TurnIdle /\ WakeIdle

GetHistory(u) ==
  /\ calls < MaxCalls
  /\ conversations' = EnsureConversations(conversations, u)
  /\ metadata' = EnsureMetadata(conversations, metadata, u, clock)
  /\ calls' = calls + 1
  /\ lastCall' = [op |-> "get_history", user |-> u]
  /\ appended' = EnsureConversations(appended, u)
  /\ UNCHANGED <<max_history, clock, parseVars, ttsVars, keyVars, turnVars, wakeVars>>

AddMessage(u, role, content) ==
  /\ calls < MaxCalls
  /\ conversations' = AddConversations(conversations, u, role, content, max_history)
  /\ metadata' = AddMetadata(conversations, metadata, u, clock)
  /\ calls' = calls + 1
  /\ lastCall' = [op |-> "add_message", user |-> u]
  /\ appended' = [EnsureConversations(appended, u) EXCEPT
                    ![u] = Append(@, [role |-> role, content |-> content])]
  /\ UNCHANGED <<max_history, clock, parseVars, ttsVars, keyVars, turnVars, wakeVars>>

ClearHistory(u) ==
  /\ calls < MaxCalls
  /\ conversations' = ClearConversations(conversations, u)
  /\ metadata' = ClearMetadata(conversations, metadata, u, clock)
  /\ calls' = calls + 1
  /\ lastCall' = [op |-> "clear_history", user |-> u]
  /\ appended' = ClearConversations(appended, u)
  /\ UNCHANGED <<max_history, clock, parseVars, ttsVars, keyVars, turnVars, wakeVars>>

\* format_for_llm with the user's message stored before the model is asked.
PromptConversationsStoring(convs, u, text, n) ==
  AddConversations(convs, u, "user", text, n)

\* conversations after format_for_llm, which reads through get_history.
PromptConversations(convs, u, text, n) == EnsureConversations(convs, u)

\* ConversationManager.format_for_llm: the list it returns is not kept; what
\* stays is what its call of get_history does.
FormatForLLM(u) ==
  /\ calls < MaxCalls
  /\ conversations' = PromptConversations(conversations, u, <<>>, max_history)
  /\ metadata' = EnsureMetadata(conversations, metadata, u, clock)
  /\ calls' = calls + 1
  /\ lastCall' = [op |-> "format_for_llm", user |-> u]
  /\ appended' = EnsureConversations(appended, u)
  /\ UNCHANGED <<max_history, clock, parseVars, ttsVars, keyVars, turnVars, wakeVars>>

\* ConversationManager.get_exchange_count: len(get_history(user_id)) // 2.
GetExchangeCount(u) ==
  /\ calls < MaxCalls
  /\ conversations' = EnsureConversations(conversations, u)
  /\ metadata' = EnsureMetadata(conversations, metadata, u, clock)
  /\ calls' = calls + 1
  /\ lastCall' = [op |-> "get_exchange_count", user |-> u]
  /\ appended' = EnsureConversations(appended, u)
  /\ UNCHANGED <<max_history, clock, parseVars, ttsVars, keyVars, turnVars, wakeVars>>

Tick ==
  /\ clock < MaxClock
  /\ clock' = clock + 1
  /\ UNCHANGED <<max_history, conversations, metadata, calls, lastCall, appended>>
  /\ UNCHANGED <<parseVars, ttsVars, keyVars, turnVars, wakeVars>>

NextCM ==
  \/ \E u \in Users : GetHistory(u)
  \/ \E u \in Users, role \in Roles, content \in Contents : AddMessage(u, role, content)
  \/ \E u \in Users : ClearHistory(u)
  \/ \E u \in Users : FormatForLLM(u)
  \/ \E u \in Users : GetExchangeCount(u)
  \/ Tick

SpecCM == InitCM /\ [][NextCM]_vars

(***************************************************************************)
(* C1: for every exchange limit N >= 1 and every sequence of get_history,  *)
(* add_message and clear_history calls on any users, with any roles, every *)
(* user's stored history holds at most 2N turns after each call.           *)
(***************************************************************************)
C1_HistoryBounded ==
  \A u \in DOMAIN conversations : Len(conversations[u]) <= 2 * max_history

\* An add_message has just run on a history that is at the bound.
C1_Witness ==
  /\ lastCall.op = "add_message"
  /\ lastCall.user \in DOMAIN conversations
  /\ Len(conversations[lastCall.user]) = 2 * max_history
  /\ metadata[lastCall.user].message_count > 2 * max_history

(***************************************************************************)
(* A manager constructed with max_history = 0: __init__ stores the number  *)
(* it is given.                                                            *)
(***************************************************************************)
InitCMZero ==
  /\ max_history = 0
  /\ conversations = <<>>
  /\ metadata = <<>>
  /\ clock = 0
  /\ calls = 0
  /\ lastCall = [op |-> "init", user |-> "u1"]
  /\ appended = <<>>
  /\ ParseIdle /\ TTSIdle /\ KeyIdle /\ TurnIdle /\ WakeIdle

SpecCMZero == InitCMZero /\ [][NextCM]_vars

(***************************************************************************)
(* C39: with exchange limit 0 the bound len(history) <= 2N still holds:    *)
(* the stored history of every user is empty after every add_message call. *)
(***************************************************************************)
C39_ZeroLimitStoresNothing ==
  (max_history = 0 /\ lastCall.op = "add_message") =>
    \A u \in DOMAIN conversations : Len(conversations[u]) <= 2 * max_history

\* What the manager does with limit 0: nothing is ever dropped, the history
\* is every message appended since the session was created or cleared.
ZeroLimitStoresEverything ==
  max_history = 0 =>
    \A u \in DOMAIN conversations :
      u \in DOMAIN appended /\ conversations[u] = appended[u]

(***************************************************************************)
(* C14: trimming drops the oldest turns first: with exchange limit N >= 1, *)
(* after k messages were appended for a user since the session was created *)
(* or last cleared, the stored history is the last min(k, 2N) of those     *)
(* messages in append order.                                               *)
(***************************************************************************)
C14_HistoryIsNewestMessages ==
  /\ DOMAIN appended = DOMAIN conversations
  /\ \A u \in DOMAIN conversations :
       LET k == Len(appended[u])
           kept == IF k < 2 * max_history THEN k ELSE 2 * max_history
       IN  conversations[u] = SubSeq(appended[u], k - kept + 1, k)

\* More than 2N messages of both roles were appended for a user, the dropped
\* one unlike the newest.
C14_Witness ==
  \E u \in DOMAIN appended :
    /\ Len(appended[u]) > 2 * max_history
    /\ appended[u][1].role # appended[u][Len(appended[u])].role
    /\ lastCall = [op |-> "add_message", user |-> u]

(***************************************************************************)
(* C15: format_for_llm is read-only: for every user, known or unknown, a   *)
(* call of it leaves the set of sessions, every turn sequence and all      *)
(* metadata unchanged.                                                     *)
(***************************************************************************)
C15_FormatIsReadOnly ==
  [][ (calls' # calls /\ lastCall'.op = "format_for_llm")
        => (conversations' = conversations /\ metadata' = metadata) ]_vars

(***************************************************************************)
(* C16: after get_history, add_message, clear_history, format_for_llm or   *)
(* get_exchange_count is called for a user unknown until then, a session   *)
(* of that user exists, its metadata holding the creation timestamp and    *)
(* the message counter started at 0 (1 once add_message has counted its    *)
(* message).                                                               *)
(***************************************************************************)
C16_UnknownUserProvisioned ==
  [][ (calls' # calls /\ lastCall'.user \notin DOMAIN conversations)
        => ( /\ lastCall'.user \in DOMAIN conversations'
             /\ lastCall'.user \in DOMAIN metadata'
             /\ metadata'[lastCall'.user].created_at = clock
             /\ metadata'[lastCall'.user].message_count =
                  IF lastCall'.op = "add_message" THEN 1 ELSE 0 ) ]_vars

\* The same for the four operations other than clear_history.
UnknownUserProvisionedByReads ==
  [][ ( /\ calls' # calls
        /\ lastCall'.op # "clear_history"
        /\ lastCall'.user \notin DOMAIN conversations )
        => ( /\ lastCall'.user \in DOMAIN conversations'
             /\ lastCall'.user \in DOMAIN metadata'
             /\ metadata'[lastCall'.user].created_at = clock
             /\ metadata'[lastCall'.user].message_count =
                  IF lastCall'.op = "add_message" THEN 1 ELSE 0 ) ]_vars

(***************************************************************************)
(* C17: clear_history on an existing session leaves its turn sequence      *)
(* empty, sets its message counter to 0, records the time as cleared_at    *)
(* and leaves created_at as it was.                                        *)
(***************************************************************************)
C17_ClearResetsSession ==
  [][ ( /\ calls' # calls
        /\ lastCall'.op = "clear_history"
        /\ lastCall'.user \in DOMAIN conversations )
        => ( /\ conversations'[lastCall'.user] = <<>>
             /\ metadata'[lastCall'.user].message_count = 0
             /\ metadata'[lastCall'.user].cleared_at = clock
             /\ metadata'[lastCall'.user].created_at =
                  metadata[lastCall'.user].created_at ) ]_vars

\* A session that held messages has just been cleared, later than it was
\* created.
C17_Witness ==
  /\ lastCall.op = "clear_history"
  /\ lastCall.user \in DOMAIN metadata
  /\ metadata[lastCall.user].last_updated # NoTime
  /\ metadata[lastCall.user].cleared_at > metadata[lastCall.user].created_at

(***************************************************************************)
(* C18: a session's message counter equals the number of add_message calls *)
(* made for the user since the session was created or last cleared: one    *)
(* more per add_message, untouched by trimming, reset only by clear.       *)
(***************************************************************************)
C18_CounterCountsAppends ==
  \A u \in DOMAIN metadata :
    u \in DOMAIN appended /\ metadata[u].message_count = Len(appended[u])

\* A session cleared once counts more messages than its trimmed history holds.
C18_Witness ==
  \E u \in DOMAIN metadata :
    /\ metadata[u].cleared_at # NoTime
    /\ metadata[u].message_count > Len(conversations[u])

(***************************************************************************)
(* C26: users are isolated: a call of get_history, add_message,            *)
(* clear_history, format_for_llm or get_exchange_count for one user leaves *)
(* the turn sequence and the metadata of every other user as they were,    *)
(* and creates or removes no session of another user.                      *)
(***************************************************************************)
C26_UsersIsolated ==
  [][ calls' # calls =>
        \A b \in Users \ {lastCall'.user} :
          /\ (b \in DOMAIN conversations') = (b \in DOMAIN conversations)
          /\ (b \in DOMAIN metadata') = (b \in DOMAIN metadata)
          /\ b \in DOMAIN conversations => conversations'[b] = conversations[b]
          /\ b \in DOMAIN metadata => metadata'[b] = metadata[b] ]_vars

\* One user's session has just been cleared while another user's session
\* holds messages.
C26_Witness ==
  /\ lastCall.op = "clear_history"
  /\ lastCall.user \in DOMAIN metadata
  /\ metadata[lastCall.user].cleared_at # NoTime
  /\ conversations[lastCall.user] = <<>>
  /\ \E b \in Users \ {lastCall.user} :
       /\ b \in DOMAIN conversations
       /\ Len(conversations[b]) >= 2
       /\ metadata[b].cleared_at = NoTime

(***************************************************************************)
(* ExpressionParser.                                                       *)
(***************************************************************************)
SUPPORTED_EXPRESSIONS ==
  << <<"s","m","i","l","e">>, <<"s","m","i","r","k">>, <<"p","o","u","t">>,
     <<"g","i","g","g","l","e">>, <<"l","a","u","g","h">>,
     <<"b","l","u","s","h">>, <<"s","h","y">>, <<"a","n","g","r","y">>,
     <<"s","u","r","p","r","i","s","e","d">>,
     <<"t","h","i","n","k","i","n","g">>,
     <<"e","x","c","i","t","e","d">>, <<"h","a","p","p","y">>,
     <<"s","a","d">>, <<"w","o","r","r","i","e","d">>,
     <<"c","o","n","f","u","s","e","d">> >>

IsSupported(e) ==
  \E i \in 1..Len(SUPPORTED_EXPRESSIONS) : SUPPORTED_EXPRESSIONS[i] = e

\* The pattern \*(.*?)\* tried at a "*" whose successor is at index i: the index
\* of the closing "*", the first one that follows with no line break before it
\* ("." matches no line break), or 0 when the pattern does not match there.
RECURSIVE FindClose(_, _)
FindClose(s, i) ==
  IF i > Len(s) THEN 0
  ELSE IF s[i] = "*" THEN i
  ELSE IF s[i] = "\n" THEN 0
  ELSE FindClose(s, i + 1)

\* expression_pattern.findall(text): the captured groups, left to right.
RECURSIVE FindAll(_)
FindAll(s) ==
  IF s = <<>> THEN <<>>
  ELSE IF Head(s) = "*" /\ FindClose(s, 2) # 0
       THEN <<SubSeq(s, 2, FindClose(s, 2) - 1)>>
              \o FindAll(SubSeq(s, FindClose(s, 2) + 1, Len(s)))
       ELSE FindAll(Tail(s))

\* expression_pattern.sub("", text): the text without the matched spans.
RECURSIVE SubAll(_)
SubAll(s) ==
  IF s = <<>> THEN <<>>
  ELSE IF Head(s) = "*" /\ FindClose(s, 2) # 0
       THEN SubAll(SubSeq(s, FindClose(s, 2) + 1, Len(s)))
       ELSE <<Head(s)>> \o SubAll(Tail(s))

NormalizeExpressions(found) == [i \in 1..Len(found) |-> Strip(Lower(found[i]))]

\* The first component of parse(text).
ParseExpressions(text) ==
  SelectSeq(NormalizeExpressions(FindAll(text)), IsSupported)

\* The second component of parse(text).
ParseCleanText(text) == NormalizeSpaces(Strip(SubAll(text)))

\* extract_expressions without its last line: every normalised capture.
ExtractedExpressionsUnfiltered(text) == NormalizeExpressions(FindAll(text))

\* extract_expressions(text): findall, lower and strip, keep the supported.
ExtractedExpressions(text) ==
  SelectSeq(NormalizeExpressions(FindAll(text)), IsSupported)

\* remove_expressions(text): sub, strip, split and join.
RemovedExpressions(text) == NormalizeSpaces(Strip(SubAll(text)))

(***************************************************************************)
(* The parser applied to every text of at most MaxLen characters, and then *)
(* to the clean text it returned.                                          *)
(***************************************************************************)
MaxLen == 5

ParseAlphabet == {"*", " ", "\n", "s", "a", "d"}

InitParse ==
  /\ p_text \in StringsUpTo(ParseAlphabet, MaxLen)
  /\ p_phase = "input"
  /\ p_tags = <<>>
  /\ p_clean = <<>>
  /\ p_tags2 = <<>>
  /\ p_clean2 = <<>>
  /\ p_extracted = NotCalled
  /\ p_removed = NotCalled
  /\ CMIdle /\ TTSIdle /\ KeyIdle /\ TurnIdle /\ WakeIdle

Parse ==
  /\ p_phase = "input"
  /\ p_tags' = ParseExpressions(p_text)
  /\ p_clean' = ParseCleanText(p_text)
  /\ p_phase' = "parsed"
  /\ UNCHANGED <<p_text, p_tags2, p_clean2, p_extracted, p_removed>>
  /\ UNCHANGED <<cmVars, ttsVars, keyVars, turnVars, wakeVars>>

ParseAgain ==
  /\ p_phase = "parsed"
  /\ p_tags2' = ParseExpressions(p_clean)
  /\ p_clean2' = ParseCleanText(p_clean)
  /\ p_phase' = "reparsed"
  /\ UNCHANGED <<p_text, p_tags, p_clean, p_extracted, p_removed>>
  /\ UNCHANGED <<cmVars, ttsVars, keyVars, turnVars, wakeVars>>

\* extract_expressions(p_text), called once, before or after parse.
ExtractExpressions ==
  /\ p_phase # "idle"
  /\ ~p_extracted.called
  /\ p_extracted' = [called |-> TRUE, value |-> ExtractedExpressions(p_text)]
  /\ UNCHANGED <<p_text, p_phase, p_tags, p_clean, p_tags2, p_clean2, p_removed>>
  /\ UNCHANGED <<cmVars, ttsVars, keyVars, turnVars, wakeVars>>

\* remove_expressions(p_text), called once, before or after parse.
RemoveExpressions ==
  /\ p_phase # "idle"
  /\ ~p_removed.called
  /\ p_removed' = [called |-> TRUE, value |-> RemovedExpressions(p_text)]
  /\ UNCHANGED <<p_text, p_phase, p_tags, p_clean, p_tags2, p_clean2, p_extracted>>
  /\ UNCHANGED <<cmVars, ttsVars, keyVars, turnVars, wakeVars>>

NextParse == Parse \/ ParseAgain \/ ExtractExpressions \/ RemoveExpressions

SpecParse == InitParse /\ [][NextParse]_vars

(***************************************************************************)
(* C10: parse is idempotent on its own output: for every input, including  *)
(* inputs with unmatched markers and line breaks, parsing the clean text   *)
(* of parse(x) again returns no tags and the same clean text.              *)
(***************************************************************************)
C10_ParseIdempotent ==
  p_phase = "reparsed" => (p_tags2 = <<>> /\ p_clean2 = p_clean)

\* The marker grammar parse is stated to implement: the markers of the text,
\* left to right, are paired first with second, third with fourth, ...,
\* whatever lies between them.
MarkerPositions(s) ==
  SelectSeq([i \in 1..Len(s) |-> i], LAMBDA i : s[i] = "*")

PairCount(s) == Len(MarkerPositions(s)) \div 2

SpanContent(s, k) ==
  SubSeq(s, MarkerPositions(s)[2 * k - 1] + 1, MarkerPositions(s)[2 * k] - 1)

InSpan(s, i) ==
  \E k \in 1..PairCount(s) :
    MarkerPositions(s)[2 * k - 1] <= i /\ i <= MarkerPositions(s)[2 * k]

PairedTags(s) ==
  SelectSeq([k \in 1..PairCount(s) |-> Strip(Lower(SpanContent(s, k)))], IsSupported)

PairedClean(s) ==
  LET keep == SelectSeq([i \in 1..Len(s) |-> i], LAMBDA i : ~InSpan(s, i))
  IN  NormalizeSpaces(Strip([j \in 1..Len(keep) |-> s[keep[j]]]))

HasLineBreakSpan(s) ==
  \E k \in 1..PairCount(s) :
    \E i \in 1..Len(SpanContent(s, k)) : SpanContent(s, k)[i] = "\n"

(***************************************************************************)
(* C11: parse pairs markers across line breaks: when a pair of consecutive *)
(* markers encloses content that contains a line break, that span is       *)
(* captured (a tag if its lowercased, trimmed content is in the            *)
(* enumeration) and deleted from clean_text like every other span.         *)
(***************************************************************************)
C11_SpansAcrossLineBreaks ==
  (p_phase # "input" /\ HasLineBreakSpan(p_text))
    => (p_tags = PairedTags(p_text) /\ p_clean = PairedClean(p_text))

(***************************************************************************)
(* C12: for every input, parse returns as tags the lowercased, trimmed     *)
(* contents of the marker-delimited spans that are in the enumeration, in  *)
(* order of occurrence with repeats kept, and as clean_text the input with *)
(* every span deleted, whitespace runs collapsed and both ends trimmed;    *)
(* the empty input gives no tags and the empty text.                       *)
(***************************************************************************)
C12_ParseFollowsGrammar ==
  p_phase # "input"
    => /\ p_tags = PairedTags(p_text)
       /\ p_clean = PairedClean(p_text)
       /\ (p_text = <<>> => (p_tags = <<>> /\ p_clean = <<>>))

\* parse follows the grammar on every text whose spans hold no line break.
ParseFollowsGrammarOnLines ==
  (p_phase # "input" /\ ~HasLineBreakSpan(p_text))
    => (p_tags = PairedTags(p_text) /\ p_clean = PairedClean(p_text))

(***************************************************************************)
(* C27: extract_expressions and remove_expressions agree with parse: for   *)
(* every input x, extract_expressions(x) is the tag list of parse(x) and   *)
(* remove_expressions(x) is the clean text of parse(x).                    *)
(***************************************************************************)
C27_HelpersAgreeWithParse ==
  p_phase \in {"parsed", "reparsed"} =>
    /\ p_extracted.called => p_extracted.value = p_tags
    /\ p_removed.called => p_removed.value = p_clean

\* Parse and both helpers have run on a text that holds a span which is no
\* supported tag, and words beside it: the span is dropped by all three.
C27_Witness ==
  /\ p_phase \in {"parsed", "reparsed"}
  /\ p_extracted.called /\ p_removed.called
  /\ p_extracted.value = p_tags /\ p_removed.value = p_clean
  /\ Len(FindAll(p_text)) > Len(p_tags)
  /\ p_clean # <<>>
  /\ p_clean # p_text

(***************************************************************************)
(* TTSHandler.                                                             *)
(***************************************************************************)
\* hashlib.md5(content.encode()).hexdigest(), taken to be free of collisions:
\* the digest is the digested string behind a fixed prefix.
Md5(content) == <<"md5:">> \o content

\* ",".join(expressions)
RECURSIVE JoinComma(_)
JoinComma(exprs) ==
  IF exprs = <<>> THEN <<>>
  ELSE IF Len(exprs) = 1 THEN exprs[1]
  ELSE exprs[1] \o <<",">> \o JoinComma(Tail(exprs))

\* A key that leaves the expressions out.
GenerateCacheKeyOfText(text, exprs) == Md5(text)

\* TTSHandler._generate_cache_key
GenerateCacheKey(text, exprs) == Md5(text \o <<"|">> \o JoinComma(exprs))

\* output_dir / f"tts_{timestamp}_{cache_key[:8]}.wav"; the digest prefix is
\* taken to identify the digest.
OutputPath(now, key) == [ts |-> now, digest |-> key]

\* The test of lines 43-44 as it would be without its second half.
IsBlankEmptyOnly(text) == text = <<>>

\* not text or not text.strip()
IsBlank(text) == text = <<>> \/ Strip(text) = <<>>

\* A lookup that never finds an entry.
CacheHitNever(c, f, key, use_cache) == FALSE

\* A lookup that does not ask whether the file is still there.
CacheHitWithoutFile(c, f, key, use_cache) == use_cache /\ key \in DOMAIN c

\* use_cache and cache_key in self.cache and Path(cached_path).exists()
CacheHit(c, f, key, use_cache) ==
  use_cache /\ key \in DOMAIN c /\ c[key] \in DOMAIN f

\* How a call of synthesize ends; engine_ok tells whether tts_engine.synthesize
\* returns or raises.
SynthesizeOutcome(c, f, text, exprs, use_cache, engine_ok) ==
  IF IsBlank(text) THEN "ValueError"
  ELSE IF CacheHit(c, f, GenerateCacheKey(text, exprs), use_cache) THEN "hit"
  ELSE IF engine_ok THEN "synthesized"
  ELSE "RuntimeError"

\* Whether the lookup of the call finds an entry whose file is gone.
StaleEntryFound(c, f, text, exprs, use_cache) ==
  /\ ~IsBlank(text)
  /\ use_cache
  /\ GenerateCacheKey(text, exprs) \in DOMAIN c
  /\ c[GenerateCacheKey(text, exprs)] \notin DOMAIN f

\* Whether the call reaches tts_engine.synthesize.
EngineInvoked(c, f, text, exprs, use_cache) ==
  /\ ~IsBlank(text)
  /\ ~CacheHit(c, f, GenerateCacheKey(text, exprs), use_cache)

\* tts_handler.synthesize as it would be if a failed engine call still
\* returned its output path.
SynthesizeResultAlways(c, f, text, exprs, use_cache, now, engine_ok) ==
  OutputPath(now, GenerateCacheKey(text, exprs))

\* The path the call returns, NoPath when it raises.
SynthesizeResult(c, f, text, exprs, use_cache, now, engine_ok) ==
  LET key == GenerateCacheKey(text, exprs)
      how == SynthesizeOutcome(c, f, text, exprs, use_cache, engine_ok)
  IN  IF how = "hit" THEN c[key]
      ELSE IF how = "synthesized" THEN OutputPath(now, key)
      ELSE NoPath

\* synthesize as it would be if it recorded the output path before it called
\* the engine.
CacheAfterSynthesizeEarly(c, f, text, exprs, use_cache, now, engine_ok) ==
  LET key == GenerateCacheKey(text, exprs)
      how == SynthesizeOutcome(c, f, text, exprs, use_cache, engine_ok)
  IN  IF how \in {"synthesized", "RuntimeError"} /\ use_cache
      THEN DictPut(c, key, OutputPath(now, key))
      ELSE c

\* self.cache after the call.
CacheAfterSynthesize(c, f, text, exprs, use_cache, now, engine_ok) ==
  LET key == GenerateCacheKey(text, exprs)
      how == SynthesizeOutcome(c, f, text, exprs, use_cache, engine_ok)
  IN  IF how = "synthesized" /\ use_cache
      THEN DictPut(c, key, OutputPath(now, key))
      ELSE c

\* The output directory after the call: the engine writes output_path.
FilesAfterSynthesize(c, f, text, exprs, use_cache, now, engine_ok) ==
  LET key == GenerateCacheKey(text, exprs)
      how == SynthesizeOutcome(c, f, text, exprs, use_cache, engine_ok)
  IN  IF how = "synthesized" THEN DictPut(f, OutputPath(now, key), now) ELSE f

\* clear_cache as it would be if it left the index alone.
CacheAfterClearKept(c) == c

\* self.cache.clear()
CacheAfterClear(c) == <<>>

\* The files cleanup_old_files finds older than max_age.
OldFiles(f, now, max_age) == {p \in DOMAIN f : now - f[p] > max_age}

\* The output directory after cleanup_old_files, when unlink raises for the
\* files in failing.
FilesAfterCleanup(f, now, max_age, failing) ==
  [p \in DOMAIN f \ (OldFiles(f, now, max_age) \ failing) |-> f[p]]

\* The output directory after a cleanup_old_files that was interrupted: the
\* file gone had been deleted by someone else when the loop came to call
\* stat() on it, which is outside the try and raises FileNotFoundError; by
\* then the loop had handled the files in handled, in the order glob gave.
FilesAfterInterruptedCleanup(f, now, max_age, failing, gone, handled) ==
  [p \in (DOMAIN f \ {gone}) \ ((OldFiles(f, now, max_age) \cap handled) \ failing)
     |-> f[p]]

(***************************************************************************)
(* The handler used on its own: any call in any order, the engine failing  *)
(* or not, the clock advancing between calls.                              *)
(***************************************************************************)
MaxTTSCalls == 3

Sad == <<"s", "a", "d">>
Shy == <<"s", "h", "y">>

TTSTexts == {<<>>, <<" ">>, <<"h", "i">>}
TagLists == {<<>>, <<Sad>>, <<Sad, Shy>>, <<Shy, Sad>>}

InitTTS ==
  /\ cache = <<>>
  /\ files = <<>>
  /\ engine_calls = 0
  /\ tts_last = [op |-> "init", n |-> 0]
  /\ served = <<>>
  /\ CMIdle /\ ParseIdle /\ KeyIdle /\ TurnIdle /\ WakeIdle

Synthesize(text, exprs, use_cache, engine_ok) ==
  /\ tts_last.n < MaxTTSCalls
  /\ cache' = CacheAfterSynthesize(cache, files, text, exprs, use_cache, clock, engine_ok)
  /\ files' = FilesAfterSynthesize(cache, files, text, exprs, use_cache, clock, engine_ok)
  /\ engine_calls' =
       IF EngineInvoked(cache, files, text, exprs, use_cache)
       THEN engine_calls + 1 ELSE engine_calls
  /\ tts_last' =
       [op |-> "synthesize", n |-> tts_last.n + 1,
        text |-> text, tags |-> exprs, use_cache |-> use_cache,
        outcome |-> SynthesizeOutcome(cache, files, text, exprs, use_cache, engine_ok),
        invoked |-> EngineInvoked(cache, files, text, exprs, use_cache),
        stale |-> StaleEntryFound(cache, files, text, exprs, use_cache),
        after_clear |-> /\ tts_last.op = "clear_cache"
                        /\ GenerateCacheKey(text, exprs) \in tts_last.dropped,
        result |-> SynthesizeResult(cache, files, text, exprs, use_cache, clock, engine_ok)]
  /\ served' =
       IF use_cache /\ SynthesizeOutcome(cache, files, text, exprs, use_cache, engine_ok)
                         \in {"hit", "synthesized"}
       THEN DictPut(served, <<text, exprs>>,
                    SynthesizeResult(cache, files, text, exprs, use_cache, clock, engine_ok))
       ELSE served
  /\ UNCHANGED <<cmVars, parseVars, keyVars, turnVars, wakeVars>>

ClearCache ==
  /\ tts_last.n < MaxTTSCalls
  /\ cache' = CacheAfterClear(cache)
  /\ served' = <<>>
  /\ tts_last' = [op |-> "clear_cache", n |-> tts_last.n + 1,
                  dropped |-> DOMAIN cache]
  /\ UNCHANGED <<files, engine_calls>>
  /\ UNCHANGED <<cmVars, parseVars, keyVars, turnVars, wakeVars>>

CleanupOldFiles(max_age, failing) ==
  /\ tts_last.n < MaxTTSCalls
  /\ files' = FilesAfterCleanup(files, clock, max_age, failing)
  /\ served' = <<>>
  /\ tts_last' =
       [op |-> "cleanup_old_files", n |-> tts_last.n + 1,
        deleted |-> OldFiles(files, clock, max_age) \ failing,
        max_age |-> max_age, failed |-> failing, raised |-> FALSE]
  /\ UNCHANGED <<cache, engine_calls>>
  /\ UNCHANGED <<cmVars, parseVars, keyVars, turnVars, wakeVars>>

\* cleanup_old_files while another party (a second sweep, an operator)
\* deletes the file gone: the call raises at audio_file.stat().
CleanupOldFilesInterrupted(max_age, failing, gone, handled) ==
  /\ tts_last.n < MaxTTSCalls
  /\ gone \in DOMAIN files
  /\ handled \subseteq DOMAIN files \ {gone}
  /\ failing \subseteq OldFiles(files, clock, max_age) \cap handled
  /\ files' = FilesAfterInterruptedCleanup(files, clock, max_age, failing, gone, handled)
  /\ served' = <<>>
  /\ tts_last' =
       [op |-> "cleanup_old_files", n |-> tts_last.n + 1,
        deleted |-> (OldFiles(files, clock, max_age) \cap handled) \ failing,
        max_age |-> max_age, failed |-> failing \cup {gone}, raised |-> TRUE]
  /\ UNCHANGED <<cache, engine_calls>>
  /\ UNCHANGED <<cmVars, parseVars, keyVars, turnVars, wakeVars>>

NextTTS ==
  \/ \E text \in TTSTexts, exprs \in TagLists, use_cache \in BOOLEAN, engine_ok \in BOOLEAN :
       Synthesize(text, exprs, use_cache, engine_ok)
  \/ ClearCache
  \/ \E max_age \in 0..MaxClock :
       \E failing \in SUBSET OldFiles(files, clock, max_age) :
         CleanupOldFiles(max_age, failing)
  \/ \E max_age \in 0..MaxClock, gone \in DOMAIN files :
       \E handled \in SUBSET (DOMAIN files \ {gone}) :
         \E failing \in SUBSET (OldFiles(files, clock, max_age) \cap handled) :
           CleanupOldFilesInterrupted(max_age, failing, gone, handled)
  \/ Tick

SpecTTS == InitTTS /\ [][NextTTS]_vars

(***************************************************************************)
(* C7: when synthesize is called twice with identical text and identical   *)
(* tag sequence (both calls using the cache, the default) and neither      *)
(* cleanup_old_files nor clear_cache runs between the calls, the second    *)
(* call does not invoke the engine and returns the reference the first     *)
(* call returned.                                                          *)
(***************************************************************************)
C7_SecondCallServedFromCache ==
  [][ ( /\ tts_last'.n # tts_last.n
        /\ tts_last'.op = "synthesize"
        /\ tts_last'.use_cache
        /\ <<tts_last'.text, tts_last'.tags>> \in DOMAIN served )
      => ( /\ ~tts_last'.invoked
           /\ engine_calls' = engine_calls
           /\ tts_last'.result = served[<<tts_last'.text, tts_last'.tags>>] ) ]_vars

\* A second call has just been answered from the cache, after another pair was
\* synthesized in between.
C7_Witness ==
  /\ tts_last.op = "synthesize"
  /\ tts_last.outcome = "hit"
  /\ engine_calls >= 2
  /\ Cardinality(DOMAIN served) >= 2

(***************************************************************************)
(* C8: cleanup_old_files removes, together with every artifact older than  *)
(* max_age that it deletes, the cache entry that refers to it: after a     *)
(* sweep no entry of the cache refers to an artifact the sweep deleted.    *)
(***************************************************************************)
C8_SweepRemovesEntries ==
  tts_last.op = "cleanup_old_files" =>
    \A key \in DOMAIN cache : cache[key] \notin tts_last.deleted

(***************************************************************************)
(* C25: synthesize rejects an empty or whitespace-only text with an error  *)
(* before it attempts synthesis: the call raises, the engine is not        *)
(* invoked and the cache (and the output directory) is unchanged.          *)
(***************************************************************************)
C25_BlankTextRejected ==
  [][ ( /\ tts_last'.n # tts_last.n
        /\ tts_last'.op = "synthesize"
        /\ \A i \in 1..Len(tts_last'.text) : tts_last'.text[i] \in Whitespace )
      => ( /\ tts_last'.outcome = "ValueError"
           /\ tts_last'.result = NoPath
           /\ ~tts_last'.invoked
           /\ engine_calls' = engine_calls
           /\ cache' = cache
           /\ files' = files
           /\ served' = served ) ]_vars

\* A whitespace-only text has just been rejected by a handler whose cache
\* holds an entry.
C25_Witness ==
  /\ tts_last.op = "synthesize"
  /\ tts_last.text = <<" ">>
  /\ tts_last.outcome = "ValueError"
  /\ DOMAIN cache # {}
  /\ engine_calls >= 1

(***************************************************************************)
(* C31: a failed synthesis leaves no cache entry behind: when the engine   *)
(* fails inside synthesize, the call ends in an error and the cache is     *)
(* what it was before the call; every entry that enters the cache or       *)
(* changes is the result of a synthesis that has just completed for that   *)
(* entry's key, its artifact written.                                      *)
(***************************************************************************)
C31_FailedSynthesisLeavesNoEntry ==
  [][ /\ ( /\ tts_last'.n # tts_last.n
           /\ tts_last'.op = "synthesize"
           /\ tts_last'.outcome = "RuntimeError" )
         => ( /\ tts_last'.invoked
              /\ engine_calls' = engine_calls + 1
              /\ tts_last'.result = NoPath
              /\ cache' = cache
              /\ served' = served )
      /\ \A key \in DOMAIN cache' :
           (key \notin DOMAIN cache \/ cache'[key] # cache[key])
             => ( /\ tts_last'.n # tts_last.n
                  /\ tts_last'.op = "synthesize"
                  /\ tts_last'.outcome = "synthesized"
                  /\ key = GenerateCacheKey(tts_last'.text, tts_last'.tags)
                  /\ cache'[key] = tts_last'.result
                  /\ cache'[key] \in DOMAIN files' ) ]_vars

\* The engine has just failed in a caching call for a pair that has no
\* entry, on a handler whose cache holds an entry of another pair.
C31_Witness ==
  /\ tts_last.op = "synthesize"
  /\ tts_last.outcome = "RuntimeError"
  /\ tts_last.use_cache
  /\ DOMAIN cache # {}
  /\ GenerateCacheKey(tts_last.text, tts_last.tags) \notin DOMAIN cache

(***************************************************************************)
(* C32: on a hit whose backing artifact no longer exists, synthesize       *)
(* invokes the engine again; when the engine returns, the entry of that    *)
(* key is replaced by the new reference, whose artifact exists, and the    *)
(* new reference is returned; the stale reference is never returned: what  *)
(* is returned is another path, or (the file was deleted and synthesized   *)
(* again within one millisecond) the same path with its artifact written   *)
(* anew.                                                                   *)
(***************************************************************************)
C32_StaleEntryResynthesized ==
  [][ \A key \in DOMAIN cache :
        ( /\ tts_last'.n # tts_last.n
          /\ tts_last'.op = "synthesize"
          /\ tts_last'.use_cache
          /\ Strip(tts_last'.text) # <<>>
          /\ key = GenerateCacheKey(tts_last'.text, tts_last'.tags)
          /\ cache[key] \notin DOMAIN files )
        => ( /\ tts_last'.invoked
             /\ engine_calls' = engine_calls + 1
             /\ tts_last'.result # cache[key] \/ cache[key] \in DOMAIN files'
             /\ tts_last'.outcome \in {"synthesized", "RuntimeError"}
             /\ tts_last'.outcome = "synthesized" =>
                  /\ tts_last'.result \in DOMAIN files'
                  /\ cache'[key] = tts_last'.result ) ]_vars

\* A caching call has just found an entry whose file a sweep had deleted and
\* has replaced it by a new artifact.
C32_Witness ==
  /\ tts_last.op = "synthesize"
  /\ tts_last.stale
  /\ tts_last.outcome = "synthesized"
  /\ cache[GenerateCacheKey(tts_last.text, tts_last.tags)] = tts_last.result
  /\ tts_last.result \in DOMAIN files

(***************************************************************************)
(* C36: clear_cache drops every entry of the cache and deletes no file of  *)
(* the output directory; the next synthesize (using the cache, with a text *)
(* that is not blank) for a pair whose entry was dropped invokes the       *)
(* engine again.                                                           *)
(***************************************************************************)
C36_ClearDropsIndexOnly ==
  [][ /\ ( /\ tts_last'.n # tts_last.n
           /\ tts_last'.op = "clear_cache" )
         => ( /\ DOMAIN cache' = {}
              /\ tts_last'.dropped = DOMAIN cache
              /\ files' = files
              /\ engine_calls' = engine_calls )
      /\ ( /\ tts_last'.n # tts_last.n
           /\ tts_last.op = "clear_cache"
           /\ tts_last'.op = "synthesize"
           /\ tts_last'.use_cache
           /\ ~IsBlank(tts_last'.text)
           /\ GenerateCacheKey(tts_last'.text, tts_last'.tags) \in tts_last.dropped )
         => ( /\ tts_last'.invoked
              /\ engine_calls' = engine_calls + 1
              /\ tts_last'.outcome \in {"synthesized", "RuntimeError"} ) ]_vars

\* A pair whose entry clear_cache dropped, its file still there, has just
\* been synthesized again.
C36_Witness ==
  /\ tts_last.op = "synthesize"
  /\ tts_last.after_clear
  /\ tts_last.use_cache
  /\ tts_last.invoked
  /\ tts_last.outcome = "synthesized"
  /\ \E path \in DOMAIN files :
       /\ path # tts_last.result
       /\ path.digest = GenerateCacheKey(tts_last.text, tts_last.tags)

(***************************************************************************)
(* synthesize called with texts and tags of any content: expressions is a  *)
(* list of strings, and neither synthesize nor _generate_cache_key looks   *)
(* at what the strings hold.                                               *)
(***************************************************************************)
NextTTSAnyTags ==
  \/ \E text \in { <<"x">>, <<"x", "|", "x">> },
        exprs \in { <<>>, << <<"x">> >>, << <<"x">>, <<"x">> >>,
                    << <<"x", ",", "x">> >>, << <<"x", "|", "x">> >> },
        engine_ok \in BOOLEAN :
       Synthesize(text, exprs, TRUE, engine_ok)
  \/ ClearCache
  \/ Tick

SpecTTSAnyTags == InitTTS /\ [][NextTTSAnyTags]_vars

\* Whether a tag is free of the separators of the key, and not empty.
PlainTag(tag) == tag # <<>> /\ \A i \in 1..Len(tag) : tag[i] \notin {"|", ","}

(***************************************************************************)
(* C38: two requests whose (text, tag sequence) pairs differ never resolve *)
(* to the same cache entry: no two different pairs are served the same     *)
(* artifact, whatever the texts and tags contain, the separators "|" and   *)
(* "," included.                                                           *)
(***************************************************************************)
C38_DistinctPairsDistinctArtifacts ==
  \A p1 \in DOMAIN served, p2 \in DOMAIN served :
    p1 # p2 => served[p1] # served[p2]

\* The same for the pairs whose tags hold no separator and are not empty,
\* as the tags of the enumeration are: the text may hold any character.
PlainTagPairsDistinctArtifacts ==
  \A p1 \in DOMAIN served, p2 \in DOMAIN served :
    ( /\ p1 # p2
      /\ \A i \in 1..Len(p1[2]) : PlainTag(p1[2][i])
      /\ \A i \in 1..Len(p2[2]) : PlainTag(p2[2][i]) )
    => served[p1] # served[p2]

(***************************************************************************)
(* C33: cleanup_old_files is best-effort: a failure while it handles one   *)
(* artifact (the artifact cannot be deleted, or it disappears while the    *)
(* sweep runs) never makes the sweep fail, and every other artifact older  *)
(* than max_age is deleted.                                                *)
(***************************************************************************)
C33_SweepBestEffort ==
  [][ ( /\ tts_last'.n # tts_last.n
        /\ tts_last'.op = "cleanup_old_files" )
      => ( /\ ~tts_last'.raised
           /\ \A path \in OldFiles(files, clock, tts_last'.max_age) \ tts_last'.failed :
                path \notin DOMAIN files' ) ]_vars

\* The same for the sweeps in which no artifact disappears: a file that
\* cannot be deleted is passed over.
SweepPassesOverUndeletable ==
  [][ ( /\ tts_last'.n # tts_last.n
        /\ tts_last'.op = "cleanup_old_files"
        /\ tts_last'.failed \subseteq DOMAIN files' )
      => ( /\ ~tts_last'.raised
           /\ \A path \in OldFiles(files, clock, tts_last'.max_age) \ tts_last'.failed :
                path \notin DOMAIN files' ) ]_vars

(***************************************************************************)
(* _generate_cache_key applied, by two handler instances, to every text of *)
(* at most MaxKeyText characters (the separators included) and every two   *)
(* tags of the enumeration, in both orders.                                *)
(***************************************************************************)
MaxKeyText == 2

KeyAlphabet == {"x", "|", ","}

KeyTags == {SUPPORTED_EXPRESSIONS[i] : i \in {7, 13, 14}}

InitKey ==
  /\ k_text \in StringsUpTo(KeyAlphabet, MaxKeyText)
  /\ k_a \in KeyTags
  /\ k_b \in KeyTags
  /\ k_phase = "input"
  /\ k_ab = <<>>
  /\ k_ba = <<>>
  /\ CMIdle /\ ParseIdle /\ TTSIdle /\ TurnIdle /\ WakeIdle

\* One handler computes the key of (text, [a, b]) ...
KeyForward ==
  /\ k_phase = "input"
  /\ k_ab' = GenerateCacheKey(k_text, <<k_a, k_b>>)
  /\ k_phase' = "forward"
  /\ UNCHANGED <<k_text, k_a, k_b, k_ba>>
  /\ UNCHANGED <<cmVars, parseVars, ttsVars, turnVars, wakeVars>>

\* ... and another the key of (text, [b, a]).
KeyBackward ==
  /\ k_phase = "forward"
  /\ k_ba' = GenerateCacheKey(k_text, <<k_b, k_a>>)
  /\ k_phase' = "both"
  /\ UNCHANGED <<k_text, k_a, k_b, k_ab>>
  /\ UNCHANGED <<cmVars, parseVars, ttsVars, turnVars, wakeVars>>

NextKey == KeyForward \/ KeyBackward

SpecKey == InitKey /\ [][NextKey]_vars

(***************************************************************************)
(* C9: the key depends only on the text and the ordered tag sequence:      *)
(* equal inputs give equal digests in every handler instance, and for      *)
(* every text t and tags a # b of the enumeration the key of (t, [a, b])   *)
(* differs from the key of (t, [b, a]).                                    *)
(***************************************************************************)
C9_KeyOrderSensitive ==
  k_phase = "both" =>
    /\ (k_a = k_b => k_ab = k_ba)
    /\ (k_a # k_b => k_ab # k_ba)

\* Both keys of a text that contains the separators have been computed.
C9_Witness ==
  /\ k_phase = "both"
  /\ k_a # k_b
  /\ k_text = <<"|", ",">>

(***************************************************************************)
(* InputProcessor.                                                         *)
(***************************************************************************)
MaxTextChars == 1000
MinAudioBytes == 100
MaxAudioBytes == 10485760

\* The text process_text validates: text.strip(), then " ".join(text.split()).
CleanText(text) == NormalizeSpaces(Strip(text))

\* process_text as it would be with "len(text) >= 1000".
TextRejectedAtLimit(text) ==
  CleanText(text) = <<>> \/ Len(CleanText(text)) >= MaxTextChars

\* Whether process_text raises ValueError.
TextRejected(text) ==
  CleanText(text) = <<>> \/ Len(CleanText(text)) > MaxTextChars

\* validate_audio as it would be without its test of the smallest size.
AudioRejectedTooLarge(size) == size > MaxAudioBytes

\* Whether validate_audio raises ValueError for a clip of that many bytes.
AudioRejected(size) == size > MaxAudioBytes \/ size < MinAudioBytes

(***************************************************************************)
(* The handlers of main.py.  Every handler is an async def run by the one  *)
(* event loop of the process: a handler that has been scheduled keeps the  *)
(* loop until it returns, raises or reaches an await that suspends it, and *)
(* the calls it makes to the inference, transcription and synthesis        *)
(* collaborators are synchronous calls made while it holds the loop.       *)
(***************************************************************************)
MaxTurns == 2

Req == {"r1", "r2"}
Kinds == {"chat", "speech", "clear"}
TextMessages == {<<" ">>, <<"h", "i">>}
AudioSizes == {99, 100, 10485761}
Transcripts == {<<>>, <<"n", "e", "w", "s", " ">>}
Responses == {<<"*", "s", "a", "d", "*", "o", "k">>, <<"*", "s", "h", "y", "*">>}
InferFailures == {"timeout", "unreachable", "http_error", "malformed"}

\* generate returned None: the completion's content was null.
NullContent == <<"null">>

NoLocal ==
  [message |-> <<>>, user_message |-> <<>>, prompt |-> <<>>, response |-> <<>>,
   expressions |-> <<>>, clean_text |-> <<>>, audio |-> NoPath,
   status |-> 0, failed |-> "none"]

NoSnap == [turns |-> <<>>, count |-> 0]

\* What get_history returns for a user, and the counter get_metadata shows,
\* an unknown user having no turns and no messages counted.
StoredTurns(convs, u) == IF u \in DOMAIN convs THEN convs[u] ELSE <<>>

MessageCount(meta, u) == IF u \in DOMAIN meta THEN meta[u].message_count ELSE 0

\* The positions at which a request is not running: accepted and not yet
\* scheduled, or suspended at "await audio.read()".
Suspended == {"start", "read"}

InFlight(r) == pc[r] \notin {"idle", "done"}

\* A scheduler that lets any handler run at any time.
SchedulableAlways(r) == TRUE

\* Whether the event loop can run the next step of request r.
Schedulable(r) == IF pc[r] \in Suspended THEN loop = NoReq ELSE loop = r

\* The except clauses of chat.
StatusOf(error) ==
  IF error = "ValueError" THEN 400
  ELSE IF error = "ConnectionError" THEN 503
  ELSE 500

\* The exception generate raises for a failure of the inference call.
InferError(failure) ==
  IF failure \in {"timeout", "unreachable"} THEN "ConnectionError" ELSE "ValueError"

\* The status a request ends with when the body of chat raised error: speech
\* catches the HTTPException of chat in its "except Exception" clause.
ChatFailureStatus(kind, error) ==
  IF kind = "speech" THEN 500 ELSE StatusOf(error)

\* WebRAG.SEARCH_TRIGGERS
SEARCH_TRIGGERS ==
  { <<"w","h","a","t"," ","i","s">>,
    <<"w","h","o"," ","i","s">>,
    <<"w","h","e","n"," ","i","s">>,
    <<"w","h","e","r","e"," ","i","s">>,
    <<"h","o","w"," ","t","o">>,
    <<"l","a","t","e","s","t">>,
    <<"r","e","c","e","n","t">>,
    <<"c","u","r","r","e","n","t">>,
    <<"t","o","d","a","y">>,
    <<"n","e","w","s">>,
    <<"w","h","a","t","'","s">>,
    <<"w","h","o","'","s">>,
    <<"d","e","f","i","n","e">>,
    <<"e","x","p","l","a","i","n">>,
    <<"t","e","l","l"," ","m","e"," ","a","b","o","u","t">>,
    <<"w","e","a","t","h","e","r">>,
    <<"p","r","i","c","e">>,
    <<"s","c","o","r","e">>,
    <<"s","e","a","r","c","h">>,
    <<"f","i","n","d"," ","o","u","t">> }

\* WebRAG.should_search
ShouldSearch(query) ==
  \E trigger \in SEARCH_TRIGGERS : IsSubstring(trigger, Lower(query))

\* Whether chat, with RAG enabled and its backend installed, has
\* rag.augment_query search the web for the message.
Searched(user_message) == ShouldSearch(user_message)

\* The messages format_for_llm returns, without the system prompt.
PromptMessages(convs, u, text) ==
  Append(StoredTurns(convs, u), [role |-> "user", content |-> text])

InitTurn ==
  /\ max_history \in 1..MaxN
  /\ conversations = <<>>
  /\ metadata = <<>>
  /\ clock = 0
  /\ calls = 0
  /\ lastCall = [op |-> "init", user |-> "u1"]
  /\ appended = <<>>
  /\ stt_mode \in {"unavailable", "no_engine", "ok"}
  /\ tts_on \in BOOLEAN
  /\ pc = [r \in Req |-> "idle"]
  /\ req = [r \in Req |-> [kind |-> "chat", user |-> "u1", message |-> <<>>, size |-> 0]]
  /\ loop = NoReq
  /\ local = [r \in Req |-> NoLocal]
  /\ snap = [r \in Req |-> NoSnap]
  /\ started = 0
  /\ collab = [r \in Req |-> {}]
  /\ ParseIdle /\ TTSIdle /\ KeyIdle /\ WakeIdle

\* The request ends: the handler returns or raises, which gives up the loop
\* and drops the request body and its local variables; what it answered stays
\* on record.
Finish(r, status, failed) ==
  /\ pc' = [pc EXCEPT ![r] = "done"]
  /\ local' = [local EXCEPT ![r] =
                 [NoLocal EXCEPT !.status = status, !.failed = failed,
                                 !.expressions = local[r].expressions,
                                 !.clean_text = local[r].clean_text,
                                 !.audio = local[r].audio]]
  /\ req' = [req EXCEPT ![r].message = <<>>, ![r].size = 0]
  /\ snap' = [snap EXCEPT ![r] = NoSnap]
  /\ collab' = [collab EXCEPT ![r] = {}]
  /\ loop' = NoReq

\* A client sends a request.
NewRequest(r, kind, u, message, size) ==
  /\ pc[r] \in {"idle", "done"}
  /\ started < MaxTurns
  /\ started' = started + 1
  /\ req' = [req EXCEPT ![r] = [kind |-> kind, user |-> u, message |-> message, size |-> size]]
  /\ pc' = [pc EXCEPT ![r] = "start"]
  /\ local' = [local EXCEPT ![r] = NoLocal]
  /\ snap' = [snap EXCEPT ![r] = NoSnap]
  /\ UNCHANGED <<stt_mode, tts_on, loop, collab>>
  /\ UNCHANGED <<cmVars, parseVars, ttsVars, keyVars, wakeVars>>

\* clear_conversation
ClearConversation(r) ==
  /\ pc[r] = "start" /\ req[r].kind = "clear"
  /\ Schedulable(r)
  /\ conversations' = ClearConversations(conversations, req[r].user)
  /\ metadata' = ClearMetadata(conversations, metadata, req[r].user, clock)
  /\ Finish(r, 200, "none")
  /\ UNCHANGED <<stt_mode, tts_on, started>>
  /\ UNCHANGED <<max_history, clock, calls, lastCall, appended, parseVars, ttsVars, keyVars, wakeVars>>

\* speech, up to "await audio.read()".
SpeechReceive(r) ==
  /\ pc[r] = "start" /\ req[r].kind = "speech"
  /\ Schedulable(r)
  /\ IF stt_mode = "unavailable"
     THEN Finish(r, 503, "unavailable")
     ELSE /\ pc' = [pc EXCEPT ![r] = "read"]
          /\ UNCHANGED <<local, loop, snap, req, collab>>
  /\ UNCHANGED <<stt_mode, tts_on, started>>
  /\ UNCHANGED <<cmVars, parseVars, ttsVars, keyVars, wakeVars>>

\* speech resumed: validate_audio, then process_speech up to the call of
\* stt_engine.transcribe.
SpeechValidate(r) ==
  /\ pc[r] = "read"
  /\ Schedulable(r)
  /\ IF AudioRejected(req[r].size) \/ stt_mode = "no_engine"
     THEN Finish(r, 400, "input")
     ELSE /\ pc' = [pc EXCEPT ![r] = "transcribe_wait"]
          /\ loop' = r
          /\ collab' = [collab EXCEPT ![r] = @ \cup {"transcription"}]
          /\ UNCHANGED <<local, snap, req>>
  /\ UNCHANGED <<stt_mode, tts_on, started>>
  /\ UNCHANGED <<cmVars, parseVars, ttsVars, keyVars, wakeVars>>

\* stt_engine.transcribe returns heard, or raises.
TranscribeReturn(r, raises, heard) ==
  /\ pc[r] = "transcribe_wait"
  /\ Schedulable(r)
  /\ IF raises \/ IsBlank(heard)
     THEN Finish(r, 400, "transcription")
     ELSE /\ pc' = [pc EXCEPT ![r] = "text"]
          /\ local' = [local EXCEPT ![r].message = Strip(heard)]
          /\ UNCHANGED <<loop, snap, req, collab>>
  /\ UNCHANGED <<stt_mode, tts_on, started>>
  /\ UNCHANGED <<cmVars, parseVars, ttsVars, keyVars, wakeVars>>

\* chat, entered by a /chat request or from speech: process_text.
ProcessText(r) ==
  /\ \/ pc[r] = "start" /\ req[r].kind = "chat"
     \/ pc[r] = "text"
  /\ Schedulable(r)
  /\ LET text == IF pc[r] = "start" THEN req[r].message ELSE local[r].message
     IN  IF TextRejected(text)
         THEN /\ Finish(r, ChatFailureStatus(req[r].kind, "ValueError"), "input")
         ELSE /\ pc' = [pc EXCEPT ![r] = "build"]
              /\ local' = [local EXCEPT ![r].user_message = CleanText(text)]
              /\ loop' = r
              /\ UNCHANGED <<req, collab>>
              /\ snap' = [snap EXCEPT ![r] =
                            [turns |-> StoredTurns(conversations, req[r].user),
                             count |-> MessageCount(metadata, req[r].user)]]
  /\ UNCHANGED <<stt_mode, tts_on, started>>
  /\ UNCHANGED <<cmVars, parseVars, ttsVars, keyVars, wakeVars>>

\* rag.augment_query, which searches the web when the message holds one of
\* its trigger phrases, then format_for_llm, then the call of
\* llm_client.generate.
BuildPrompt(r) ==
  /\ pc[r] = "build"
  /\ Schedulable(r)
  /\ conversations' =
       PromptConversations(conversations, req[r].user, local[r].user_message, max_history)
  /\ metadata' = EnsureMetadata(conversations, metadata, req[r].user, clock)
  /\ local' = [local EXCEPT ![r].prompt =
                 PromptMessages(conversations, req[r].user, local[r].user_message)]
  /\ pc' = [pc EXCEPT ![r] = "infer_wait"]
  /\ collab' = [collab EXCEPT ![r] =
                  @ \cup (IF Searched(local[r].user_message) THEN {"search"} ELSE {})
                    \cup {"inference"}]
  /\ UNCHANGED <<stt_mode, tts_on, req, loop, snap, started>>
  /\ UNCHANGED <<max_history, clock, calls, lastCall, appended, parseVars, ttsVars, keyVars, wakeVars>>

\* llm_client.generate returns a completion.
InferReturn(r, response) ==
  /\ pc[r] = "infer_wait"
  /\ Schedulable(r)
  /\ pc' = [pc EXCEPT ![r] = "extract"]
  /\ local' = [local EXCEPT ![r].response = response]
  /\ UNCHANGED <<stt_mode, tts_on, req, loop, snap, started, collab>>
  /\ UNCHANGED <<cmVars, parseVars, ttsVars, keyVars, wakeVars>>

\* llm_client.generate raises.
InferFail(r, failure) ==
  /\ pc[r] = "infer_wait"
  /\ Schedulable(r)
  /\ Finish(r, ChatFailureStatus(req[r].kind, InferError(failure)), "inference")
  /\ UNCHANGED <<stt_mode, tts_on, started>>
  /\ UNCHANGED <<cmVars, parseVars, ttsVars, keyVars, wakeVars>>

\* expression_parser.parse(response); a None response makes it raise TypeError.
Extract(r) ==
  /\ pc[r] = "extract"
  /\ Schedulable(r)
  /\ IF local[r].response = NullContent
     THEN Finish(r, ChatFailureStatus(req[r].kind, "TypeError"), "inference")
     ELSE /\ pc' = [pc EXCEPT ![r] = "append_user"]
          /\ local' = [local EXCEPT
                         ![r].expressions = ParseExpressions(local[r].response),
                         ![r].clean_text = ParseCleanText(local[r].response)]
          /\ UNCHANGED <<loop, snap, req, collab>>
  /\ UNCHANGED <<stt_mode, tts_on, started>>
  /\ UNCHANGED <<cmVars, parseVars, ttsVars, keyVars, wakeVars>>

\* conversation_manager.add_message(user_id, "user", user_message)
AppendUser(r) ==
  /\ pc[r] = "append_user"
  /\ Schedulable(r)
  /\ conversations' =
       AddConversations(conversations, req[r].user, "user", local[r].user_message, max_history)
  /\ metadata' = AddMetadata(conversations, metadata, req[r].user, clock)
  /\ pc' = [pc EXCEPT ![r] = "append_assistant"]
  /\ UNCHANGED <<stt_mode, tts_on, req, loop, local, snap, started, collab>>
  /\ UNCHANGED <<max_history, clock, calls, lastCall, appended, parseVars, ttsVars, keyVars, wakeVars>>

\* conversation_manager.add_message(user_id, "assistant", response)
AppendAssistant(r) ==
  /\ pc[r] = "append_assistant"
  /\ Schedulable(r)
  /\ conversations' =
       AddConversations(conversations, req[r].user, "assistant", local[r].response, max_history)
  /\ metadata' = AddMetadata(conversations, metadata, req[r].user, clock)
  /\ pc' = [pc EXCEPT ![r] = "synthesize"]
  /\ UNCHANGED <<stt_mode, tts_on, req, loop, local, snap, started, collab>>
  /\ UNCHANGED <<max_history, clock, calls, lastCall, appended, parseVars, ttsVars, keyVars, wakeVars>>

\* "if tts_handler and clean_text": tts_handler.synthesize up to the call of
\* the engine, or to its return on a cache hit.
SynthesizeCall(r) ==
  /\ pc[r] = "synthesize"
  /\ Schedulable(r)
  /\ IF ~tts_on \/ local[r].clean_text = <<>>
     THEN /\ pc' = [pc EXCEPT ![r] = "respond"]
          /\ UNCHANGED <<local, collab>>
     ELSE IF EngineInvoked(cache, files, local[r].clean_text, local[r].expressions, TRUE)
     THEN /\ pc' = [pc EXCEPT ![r] = "synthesize_wait"]
          /\ collab' = [collab EXCEPT ![r] = @ \cup {"synthesis"}]
          /\ UNCHANGED local
     ELSE /\ pc' = [pc EXCEPT ![r] = "respond"]
          /\ collab' = [collab EXCEPT ![r] = @ \cup {"synthesis"}]
          /\ local' = [local EXCEPT ![r].audio =
                         SynthesizeResult(cache, files, local[r].clean_text,
                                          local[r].expressions, TRUE, clock, TRUE)]
  /\ UNCHANGED <<stt_mode, tts_on, req, loop, snap, started>>
  /\ UNCHANGED <<cmVars, parseVars, ttsVars, keyVars, wakeVars>>

\* tts_engine.synthesize returns or raises; a failure is printed and the turn
\* goes on without audio.
SynthesizeReturn(r, engine_ok) ==
  /\ pc[r] = "synthesize_wait"
  /\ Schedulable(r)
  /\ cache' = CacheAfterSynthesize(cache, files, local[r].clean_text,
                                   local[r].expressions, TRUE, clock, engine_ok)
  /\ files' = FilesAfterSynthesize(cache, files, local[r].clean_text,
                                   local[r].expressions, TRUE, clock, engine_ok)
  /\ engine_calls' = engine_calls + 1
  /\ local' = [local EXCEPT ![r].audio =
                 SynthesizeResult(cache, files, local[r].clean_text,
                                  local[r].expressions, TRUE, clock, engine_ok)]
  /\ pc' = [pc EXCEPT ![r] = "respond"]
  /\ UNCHANGED <<stt_mode, tts_on, req, loop, snap, started, collab>>
  /\ UNCHANGED <<cmVars, parseVars, tts_last, served, keyVars, wakeVars>>

\* return ConversationResponse(...)
Respond(r) ==
  /\ pc[r] = "respond"
  /\ Schedulable(r)
  /\ Finish(r, 200, "none")
  /\ UNCHANGED <<stt_mode, tts_on, started>>
  /\ UNCHANGED <<cmVars, parseVars, ttsVars, keyVars, wakeVars>>

NextTurn ==
  \/ \E r \in Req, u \in Users, message \in TextMessages :
       NewRequest(r, "chat", u, message, 0)
  \/ \E r \in Req, u \in Users, size \in AudioSizes :
       NewRequest(r, "speech", u, <<>>, size)
  \/ \E r \in Req, u \in Users : NewRequest(r, "clear", u, <<>>, 0)
  \/ \E r \in Req : ClearConversation(r)
  \/ \E r \in Req : SpeechReceive(r)
  \/ \E r \in Req : SpeechValidate(r)
  \/ \E r \in Req, heard \in Transcripts : TranscribeReturn(r, FALSE, heard)
  \/ \E r \in Req : TranscribeReturn(r, TRUE, <<>>)
  \/ \E r \in Req : ProcessText(r)
  \/ \E r \in Req : BuildPrompt(r)
  \/ \E r \in Req, response \in Responses \cup {NullContent} : InferReturn(r, response)
  \/ \E r \in Req, failure \in InferFailures : InferFail(r, failure)
  \/ \E r \in Req : Extract(r)
  \/ \E r \in Req : AppendUser(r)
  \/ \E r \in Req : AppendAssistant(r)
  \/ \E r \in Req : SynthesizeCall(r)
  \/ \E r \in Req, engine_ok \in BOOLEAN : SynthesizeReturn(r, engine_ok)
  \/ \E r \in Req : Respond(r)

SpecTurn == InitTurn /\ [][NextTurn]_vars

(***************************************************************************)
(* The same handlers serving one client that sends one request at a time,  *)
(* its messages at the limits of process_text: the empty message, a blank, *)
(* a message one character over the limit, and one of that length whose    *)
(* characters beyond "hi" are blanks.                                      *)
(***************************************************************************)
LongText == [i \in 1..(MaxTextChars + 1) |-> "x"]
PaddedText == <<"h", "i">> \o [i \in 1..(MaxTextChars - 1) |-> " "]

LimitTexts == {<<>>, <<" ">>, <<"h", "i">>, LongText, PaddedText}

OneClient == {"r1"}

NextInput ==
  \/ \E r \in OneClient, u \in Users, message \in LimitTexts :
       NewRequest(r, "chat", u, message, 0)
  \/ \E r \in OneClient, u \in Users, size \in AudioSizes :
       NewRequest(r, "speech", u, <<>>, size)
  \/ \E r \in OneClient : SpeechReceive(r)
  \/ \E r \in OneClient : SpeechValidate(r)
  \/ \E r \in OneClient, heard \in Transcripts : TranscribeReturn(r, FALSE, heard)
  \/ \E r \in OneClient : TranscribeReturn(r, TRUE, <<>>)
  \/ \E r \in OneClient : ProcessText(r)
  \/ \E r \in OneClient : BuildPrompt(r)
  \/ \E r \in OneClient, response \in Responses : InferReturn(r, response)
  \/ \E r \in OneClient, failure \in InferFailures : InferFail(r, failure)
  \/ \E r \in OneClient : Extract(r)
  \/ \E r \in OneClient : AppendUser(r)
  \/ \E r \in OneClient : AppendAssistant(r)
  \/ \E r \in OneClient : SynthesizeCall(r)
  \/ \E r \in OneClient, engine_ok \in BOOLEAN : SynthesizeReturn(r, engine_ok)
  \/ \E r \in OneClient : Respond(r)

SpecInput == InitTurn /\ [][NextInput]_vars

\* A history of whole exchanges: user, assistant, user, assistant, ...
WellPaired(turns) ==
  /\ Len(turns) % 2 = 0
  /\ \A i \in 1..Len(turns) :
       turns[i].role = IF i % 2 = 1 THEN "user" ELSE "assistant"

\* The session of a user: its turns and its metadata, or nothing.
SessionOf(convs, meta, u) ==
  IF u \in DOMAIN convs THEN <<convs[u], meta[u]>> ELSE <<>>

(***************************************************************************)
(* C2: with messages appended in user-then-assistant order per turn, after *)
(* every individual add_message call, also the one between a turn's user   *)
(* append and its assistant append, a non-empty stored history begins with *)
(* a turn of role "user".                                                  *)
(***************************************************************************)
C2_HistoryBeginsWithUser ==
  \A u \in DOMAIN conversations :
    conversations[u] # <<>> => conversations[u][1].role = "user"

(***************************************************************************)
(* C3: if the inference call of a turn fails, the turn aborts with the     *)
(* user's turn sequence and message counter as they were when the turn     *)
(* began: no user turn is stored without its assistant turn.               *)
(***************************************************************************)
C3_FailedInferenceKeepsHistory ==
  [][ \A r \in Req :
        ( /\ pc[r] \in {"infer_wait", "extract"}
          /\ pc'[r] = "done"
          /\ local'[r].failed = "inference" )
        => ( /\ StoredTurns(conversations', req[r].user) = snap[r].turns
             /\ MessageCount(metadata', req[r].user) = snap[r].count ) ]_vars

\* A turn of a user who has a history has just been aborted by a failed
\* inference.
C3_Witness ==
  \E r \in Req :
    /\ pc[r] = "done"
    /\ local[r].failed = "inference"
    /\ StoredTurns(conversations, req[r].user) # <<>>

(***************************************************************************)
(* C4: in every state reached by interleaving text turns, speech turns and *)
(* clear requests of any users, that is whenever no handler is in the      *)
(* middle of its run, each user's stored history has even length and       *)
(* alternates user, assistant, ... starting with a user turn.              *)
(***************************************************************************)
C4_HistoriesPaired ==
  loop = NoReq => \A u \in DOMAIN conversations : WellPaired(conversations[u])

\* A history that has been trimmed, seen while a speech turn is suspended.
C4_Witness ==
  /\ loop = NoReq
  /\ \E u \in DOMAIN conversations :
       /\ Len(conversations[u]) = 2 * max_history
       /\ metadata[u].message_count > 2 * max_history
  /\ \E r \in Req : pc[r] = "done" /\ req[r].kind = "speech" /\ local[r].status = 200

(***************************************************************************)
(* C5: while a turn is between its user-message append and its            *)
(* assistant-message append, no step of another request changes that       *)
(* user's session (no add_message, trim or clear of another request).      *)
(***************************************************************************)
C5_AppendsNotInterleaved ==
  [][ \A r \in Req :
        ( /\ pc[r] = "append_assistant"
          /\ SessionOf(conversations', metadata', req[r].user)
               # SessionOf(conversations, metadata, req[r].user) )
        => pc'[r] = "synthesize" ]_vars

\* A turn is between its two appends while another request of the same user
\* is in flight.
C5_Witness ==
  \E r1, r2 \in Req :
    /\ r1 # r2
    /\ pc[r1] = "append_assistant"
    /\ InFlight(r2)
    /\ req[r2].user = req[r1].user

(***************************************************************************)
(* C6: turns for different users never block each other: whenever a turn   *)
(* for one user is waiting on its inference or synthesis collaborator, a   *)
(* turn in flight for a different user can take its next step.             *)
(***************************************************************************)
C6_OtherUsersNotBlocked ==
  \A a, b \in Req :
    ( /\ pc[a] \in {"infer_wait", "synthesize_wait"}
      /\ InFlight(b)
      /\ req[b].kind \in {"chat", "speech"}
      /\ req[b].user # req[a].user )
    => Schedulable(b)

\* The stored history of u ends with the exchange of request r.
EndsWithExchange(convs, u, user_message, response) ==
  /\ u \in DOMAIN convs
  /\ Len(convs[u]) >= 2
  /\ convs[u][Len(convs[u]) - 1].role = "user"
  /\ convs[u][Len(convs[u]) - 1].content = user_message
  /\ convs[u][Len(convs[u])].role = "assistant"
  /\ convs[u][Len(convs[u])].content = response

(***************************************************************************)
(* C13: if synthesis fails after a successful inference (the engine was    *)
(* called and wrote no artifact), the turn goes on to its response, which  *)
(* has status 200 and carries the extracted tags and clean text and no     *)
(* audio reference, and the user turn and the assistant turn of the        *)
(* exchange are in the history.                                            *)
(***************************************************************************)
C13_SynthesisFailureNotFatal ==
  [][ \A r \in Req :
        /\ ( /\ pc[r] = "synthesize_wait"
             /\ pc'[r] # pc[r]
             /\ files' = files )
           => ( /\ pc'[r] = "respond"
                /\ local'[r].audio = NoPath
                /\ local'[r].expressions = ParseExpressions(local[r].response)
                /\ local'[r].clean_text = ParseCleanText(local[r].response)
                /\ EndsWithExchange(conversations', req[r].user,
                                    local[r].user_message, local[r].response) )
        /\ ( pc[r] = "respond" /\ pc'[r] # pc[r] )
           => ( /\ pc'[r] = "done"
                /\ local'[r].status = 200
                /\ local'[r].failed = "none"
                /\ local'[r].audio = local[r].audio
                /\ local'[r].expressions = ParseExpressions(local[r].response)
                /\ local'[r].clean_text = ParseCleanText(local[r].response)
                /\ EndsWithExchange(conversations', req[r].user,
                                    local[r].user_message, local[r].response) ) ]_vars

\* A turn whose synthesis failed has been answered: synthesis was due (the
\* handler is there and the clean text is not empty) and there is no audio.
C13_Witness ==
  \E r \in Req :
    /\ pc[r] = "done"
    /\ local[r].status = 200
    /\ tts_on
    /\ local[r].clean_text # <<>>
    /\ local[r].expressions # <<>>
    /\ local[r].audio = NoPath
    /\ engine_calls >= 1

\* What a step of request r leaves behind when the request is rejected for
\* its input: the request goes on to read its upload or ends, and ends in an
\* error; it has called no collaborator; no session, no cache entry and no
\* artifact has changed.
RejectedUntouched(r) ==
  /\ pc'[r] \in {"read", "done"}
  /\ pc'[r] = "done" => (local'[r].status \in {400, 503} /\ local'[r].failed # "none")
  /\ collab[r] = {} /\ collab'[r] = {}
  /\ conversations' = conversations /\ metadata' = metadata
  /\ cache' = cache /\ files' = files /\ engine_calls' = engine_calls

\* The audio of a /speech request is under 100 bytes or over the size limit.
BadAudio(r) ==
  /\ req[r].kind = "speech"
  /\ (req[r].size < MinAudioBytes \/ req[r].size > MaxAudioBytes)

(***************************************************************************)
(* C23, as stated: an input error is rejected before any external call: a  *)
(* turn whose text is empty or whitespace-only or longer than 1000         *)
(* characters, or whose audio is under 100 bytes or over the size limit,   *)
(* ends in an error without any search, inference, transcription or        *)
(* synthesis collaborator having been called and with every session and    *)
(* cache entry unchanged.                                                  *)
(***************************************************************************)
C23_InputErrorBeforeExternalCall ==
  [][ \A r \in Req :
        ( /\ InFlight(r)
          /\ pc'[r] # pc[r]
          /\ \/ /\ req[r].kind = "chat"
                /\ \/ OnlyWhitespace(req[r].message)
                   \/ Len(req[r].message) > MaxTextChars
             \/ BadAudio(r) )
        => RejectedUntouched(r) ]_vars

(***************************************************************************)
(* C23, amended: the same for a turn whose text is empty or                *)
(* whitespace-only or, once its surrounding whitespace is stripped and     *)
(* every inner run of whitespace is one blank, longer than 1000            *)
(* characters, or whose audio is under 100 bytes or over the size limit.   *)
(***************************************************************************)
C23_NormalisedInputErrorBeforeExternalCall ==
  [][ \A r \in Req :
        ( /\ InFlight(r)
          /\ pc'[r] # pc[r]
          /\ \/ /\ req[r].kind = "chat"
                /\ \/ OnlyWhitespace(req[r].message)
                   \/ Len(NormalizeSpaces(Strip(req[r].message))) > MaxTextChars
             \/ BadAudio(r) )
        => RejectedUntouched(r) ]_vars

\* A /chat request has just been rejected for its input, with status 400,
\* by a service that holds a session with messages and a cached artifact.
C23_Witness ==
  \E r \in Req :
    /\ pc[r] = "done"
    /\ req[r].kind = "chat"
    /\ local[r].failed = "input"
    /\ local[r].status = 400
    /\ collab[r] = {}
    /\ DOMAIN cache # {}
    /\ \E u \in DOMAIN conversations : Len(conversations[u]) >= 2

(***************************************************************************)
(* process_text on its own: requests arrive and chat runs its first        *)
(* statement on them.  The texts are those around the limit of 1000        *)
(* characters: of 1000 characters, of 1000 inside surrounding blanks, of   *)
(* 1000 once a run of two blanks is collapsed, and of 1001.                *)
(***************************************************************************)
FullText == [i \in 1..MaxTextChars |-> "x"]

BoundaryTexts ==
  LimitTexts \cup
    { FullText,
      <<" ">> \o FullText \o <<" ", "\n">>,
      [i \in 1..(MaxTextChars - 2) |-> "x"] \o <<" ", "\t", "x">>,
      [i \in 1..(MaxTextChars - 1) |-> "x"] \o <<" ", " ", "x">> }

InitText == InitTurn /\ stt_mode = "ok" /\ tts_on

NextText ==
  \/ \E r \in OneClient, u \in Users, message \in BoundaryTexts :
       NewRequest(r, "chat", u, message, 0)
  \/ \E r \in OneClient : ProcessText(r)

SpecText == InitText /\ [][NextText]_vars

(***************************************************************************)
(* C37: process_text accepts a text exactly when the text, stripped and    *)
(* with every run of whitespace collapsed to one blank, has between 1 and  *)
(* 1000 characters; it then returns that normalised text (the message the  *)
(* turn goes on with), and otherwise raises an input error.  A text of     *)
(* 1000 characters is accepted and one of 1001 is rejected.                *)
(***************************************************************************)
C37_TextAcceptedWithinLimit ==
  [][ \A r \in Req :
        ProcessText(r) =>
          LET text == IF pc[r] = "start" THEN req[r].message ELSE local[r].message
              length == Len(NormalizeSpaces(Strip(text)))
          IN  IF 1 <= length /\ length <= 1000
              THEN /\ pc'[r] = "build"
                   /\ local'[r].user_message = NormalizeSpaces(Strip(text))
              ELSE /\ pc'[r] = "done"
                   /\ local'[r].failed = "input"
                   /\ local'[r].status = ChatFailureStatus(req[r].kind, "ValueError")
                   /\ collab'[r] = {} ]_vars

\* process_text has just returned a text of 1000 characters.
C37_Witness ==
  \E r \in Req :
    /\ pc[r] = "build"
    /\ Len(local[r].user_message) = 1000

\* The status of a turn rejected for its input: process_text and
\* validate_audio raise ValueError, which chat and speech answer alike.
InputErrorStatus == StatusOf("ValueError")

(***************************************************************************)
(* C24: a collaborator failure is surfaced in a category distinguishable   *)
(* from an input error: on the text path and on the speech path, a turn    *)
(* whose inference call is unreachable, times out or returns a malformed   *)
(* response is never reported with the status of an empty or oversized     *)
(* input, and the same inference failure gets the same status on both      *)
(* paths.                                                                  *)
(***************************************************************************)
C24_InferenceFailureDistinguishable ==
  [][ \A r \in Req, failure \in InferFailures :
        InferFail(r, failure)
          => ( /\ local'[r].status # InputErrorStatus
               /\ local'[r].status = ChatFailureStatus("chat", InferError(failure))
               /\ local'[r].status = ChatFailureStatus("speech", InferError(failure)) )
    ]_vars

\* The first half alone, on the text path (it fails too): no failed
\* inference of a /chat turn is answered with the status of an input error.
TextPathDistinguishable ==
  [][ \A r \in Req, failure \in InferFailures :
        (InferFail(r, failure) /\ req[r].kind = "chat")
          => local'[r].status # InputErrorStatus ]_vars

\* The second half alone (it fails too): a failed inference is answered on
\* the speech path as it is on the text path.
SameStatusOnBothPaths ==
  [][ \A r \in Req, failure \in InferFailures :
        InferFail(r, failure)
          => local'[r].status = ChatFailureStatus("chat", InferError(failure)) ]_vars

\* The step of the turn a handler position belongs to: 1 RECEIVE (with the
\* validation of what was received), 2 TRANSCRIBE, 3 BUILD_PROMPT, 4 INFER,
\* 5 EXTRACT_EXPRESSIONS, 6 APPEND_HISTORY, 7 SYNTHESIZE, 8 RESPOND.
StepOf(position) ==
  CASE position \in {"start", "read"} -> 1
    [] position \in {"transcribe_wait", "text"} -> 2
    [] position = "build" -> 3
    [] position = "infer_wait" -> 4
    [] position = "extract" -> 5
    [] position \in {"append_user", "append_assistant"} -> 6
    [] position \in {"synthesize", "synthesize_wait"} -> 7
    [] position = "respond" -> 8
    [] OTHER -> 0

\* Request r is a turn (a /chat or /speech request) taking a step.
TurnSteps(r) ==
  /\ InFlight(r)
  /\ req[r].kind \in {"chat", "speech"}
  /\ pc'[r] # pc[r]

(***************************************************************************)
(* C30: every turn runs its steps in the fixed order RECEIVE, (TRANSCRIBE), *)
(* BUILD_PROMPT, INFER, EXTRACT_EXPRESSIONS, APPEND_HISTORY, (SYNTHESIZE),  *)
(* RESPOND: a step is followed by itself or the next one (TRANSCRIBE left   *)
(* out by a text turn), or the turn ends in an error; the prompt is built   *)
(* from the history as it was before the turn, followed by the message;     *)
(* both sides are appended to the history only after inference succeeded    *)
(* and before synthesis is attempted; the response is produced last.        *)
(***************************************************************************)
C30_StepsInFixedOrder ==
  [][ \A r \in Req :
        TurnSteps(r) =>
          /\ \/ pc'[r] = "done" /\ local'[r].status # 200
             \/ pc'[r] = "done" /\ pc[r] = "respond" /\ local'[r].status = 200
             \/ pc'[r] # "done" /\ StepOf(pc'[r]) \in {StepOf(pc[r]), StepOf(pc[r]) + 1}
             \/ pc'[r] # "done" /\ req[r].kind = "chat"
                  /\ StepOf(pc[r]) = 1 /\ StepOf(pc'[r]) = 3
          /\ (StepOf(pc[r]) = 3 /\ StepOf(pc'[r]) = 4) =>
               /\ local'[r].prompt =
                    Append(snap[r].turns,
                           [role |-> "user", content |-> local[r].user_message])
               /\ StoredTurns(conversations, req[r].user) = snap[r].turns
               /\ StoredTurns(conversations', req[r].user) = snap[r].turns
          /\ StoredTurns(conversations', req[r].user)
                # StoredTurns(conversations, req[r].user) =>
               /\ StepOf(pc[r]) = 6
               /\ "inference" \in collab[r]
               /\ local[r].response \in Responses
               /\ "synthesis" \notin collab[r]
          /\ ("synthesis" \in collab'[r] /\ "synthesis" \notin collab[r]) =>
               /\ StepOf(pc[r]) = 7
               /\ EndsWithExchange(conversations, req[r].user,
                                   local[r].user_message, local[r].response)
    ]_vars

\* A speech turn has gone through every step: it was transcribed, searched,
\* inferred, appended and synthesized, and has been answered with audio.
C30_Witness ==
  \E r \in Req :
    /\ pc[r] = "done"
    /\ req[r].kind = "speech"
    /\ local[r].status = 200
    /\ local[r].audio # NoPath
    /\ local[r].expressions # <<>>
    /\ Len(StoredTurns(conversations, req[r].user)) >= 2

(***************************************************************************)
(* WakeWordDetector.                                                       *)
(***************************************************************************)
DEFAULT_WAKE_WORDS ==
  << <<"h", "e", "y", " ", "l", "u", "c", "y">>,
     <<"h", "i", " ", "l", "u", "c", "y">>,
     <<"o", "k", " ", "l", "u", "c", "y">>,
     <<"o", "k", "a", "y", " ", "l", "u", "c", "y">>,
     <<"h", "e", "y", " ", "l", "u", "c", "e">> >>

Digits == {"0", "1", "2", "3", "4", "5", "6", "7", "8", "9"}

\* The characters re.sub(r"[^a-z0-9\s]", "", ...) keeps.
KeptByDetect(c) ==
  \/ \E i \in 1..Len(LowerLetters) : LowerLetters[i] = c
  \/ c \in Digits
  \/ IsSpace(c)

\* wake_word.lower().strip()
NormalisePhrase(w) == Strip(Lower(w))

\* The list the constructor stores for a caller-supplied list.
ConstructedWakeWords(given) == [i \in 1..Len(given) |-> NormalisePhrase(given[i])]

\* text_clean in detect.
TextClean(transcription) == SelectSeq(Lower(transcription), KeptByDetect)

\* get_wake_words handing out self.wake_words itself.
ReturnedListIsStoredListYes == TRUE

\* Whether the list get_wake_words returns is the stored list object: it
\* returns self.wake_words.copy(), a new list.
ReturnedListIsStoredList == FALSE

\* WakeWordDetector.detect
Detect(words, transcription) ==
  IF transcription = <<>> THEN FALSE
  ELSE \E i \in 1..Len(words) : IsSubstring(words[i], TextClean(transcription))

IsStored(words, w) == \E i \in 1..Len(words) : words[i] = w

\* list.remove(w): the first entry equal to w goes.
RemoveFirst(words, w) ==
  LET at == CHOOSE i \in 1..Len(words) :
              words[i] = w /\ \A j \in 1..(i - 1) : words[j] # w
  IN  SubSeq(words, 1, at - 1) \o SubSeq(words, at + 1, Len(words))

\* add_wake_word without its membership test.
WakeWordsAfterAddAlways(words, w) == Append(words, NormalisePhrase(w))

\* self.wake_words after add_wake_word(w).
WakeWordsAfterAdd(words, w) ==
  IF IsStored(words, NormalisePhrase(w)) THEN words
  ELSE Append(words, NormalisePhrase(w))

\* self.wake_words after remove_wake_word(w).
WakeWordsAfterRemove(words, w) ==
  IF IsStored(words, NormalisePhrase(w))
  THEN RemoveFirst(words, NormalisePhrase(w))
  ELSE words

(***************************************************************************)
(* The detector used on its own: built with the default list or with a     *)
(* list of the caller, then any calls of add_wake_word, remove_wake_word   *)
(* and detect.                                                             *)
(***************************************************************************)
MaxWakeCalls == 3
MaxGiven == 2

WakePhrases == {<<"h">>, <<"H", " ">>, <<" ">>, <<"h", "!">>}

WakeTranscripts ==
  { <<>>, <<"!">>, <<"H", "!">>, <<"h">>,
    <<"O", "K", ",", " ", "L", "u", "c", "y">> }

InitWake ==
  /\ \/ wake_words = DEFAULT_WAKE_WORDS
     \/ \E given \in StringsUpTo(WakePhrases, MaxGiven) :
          wake_words = ConstructedWakeWords(given)
  /\ w_seen = <<>>
  /\ w_last = [op |-> "init", n |-> 0]
  /\ w_returned = NoList
  /\ CMIdle /\ ParseIdle /\ TTSIdle /\ KeyIdle /\ TurnIdle

DetectCall(transcription) ==
  /\ w_last.n < MaxWakeCalls
  /\ w_seen' = DictPut(w_seen, transcription, Detect(wake_words, transcription))
  /\ w_last' = [op |-> "detect", n |-> w_last.n + 1, arg |-> transcription,
                result |-> Detect(wake_words, transcription)]
  /\ UNCHANGED <<wake_words, w_returned>>
  /\ UNCHANGED <<cmVars, parseVars, ttsVars, keyVars, turnVars>>

AddWakeWord(w) ==
  /\ w_last.n < MaxWakeCalls
  /\ wake_words' = WakeWordsAfterAdd(wake_words, w)
  /\ w_seen' = <<>>
  /\ w_last' = [op |-> "add_wake_word", n |-> w_last.n + 1, arg |-> w,
                was_stored |-> IsStored(wake_words, NormalisePhrase(w))]
  /\ UNCHANGED w_returned
  /\ UNCHANGED <<cmVars, parseVars, ttsVars, keyVars, turnVars>>

RemoveWakeWord(w) ==
  /\ w_last.n < MaxWakeCalls
  /\ wake_words' = WakeWordsAfterRemove(wake_words, w)
  /\ w_seen' = <<>>
  /\ w_last' = [op |-> "remove_wake_word", n |-> w_last.n + 1, arg |-> w,
                was_stored |-> IsStored(wake_words, NormalisePhrase(w))]
  /\ UNCHANGED w_returned
  /\ UNCHANGED <<cmVars, parseVars, ttsVars, keyVars, turnVars>>

\* get_wake_words: return self.wake_words.copy()
GetWakeWords ==
  /\ w_last.n < MaxWakeCalls
  /\ w_returned' = [held |-> TRUE, value |-> wake_words]
  /\ w_last' = [op |-> "get_wake_words", n |-> w_last.n + 1, result |-> wake_words]
  /\ UNCHANGED <<wake_words, w_seen>>
  /\ UNCHANGED <<cmVars, parseVars, ttsVars, keyVars, turnVars>>

\* The caller changes the list it was given: list.append, list.pop(0),
\* list.reverse.
ListAfter(kind, value, w) ==
  IF kind = "append" THEN Append(value, w)
  ELSE IF kind = "pop" THEN (IF value = <<>> THEN value ELSE Tail(value))
  ELSE [i \in 1..Len(value) |-> value[Len(value) + 1 - i]]

MutateReturned(kind, w) ==
  /\ w_last.n < MaxWakeCalls
  /\ w_returned.held
  /\ ListAfter(kind, w_returned.value, w) # w_returned.value
  /\ w_returned' = [w_returned EXCEPT !.value = ListAfter(kind, @, w)]
  /\ wake_words' = IF ReturnedListIsStoredList
                   THEN ListAfter(kind, w_returned.value, w)
                   ELSE wake_words
  /\ w_seen' = IF ReturnedListIsStoredList THEN <<>> ELSE w_seen
  /\ w_last' = [op |-> "caller_" \o kind, n |-> w_last.n + 1]
  /\ UNCHANGED <<cmVars, parseVars, ttsVars, keyVars, turnVars>>

NextWake ==
  \/ \E transcription \in WakeTranscripts : DetectCall(transcription)
  \/ \E w \in WakePhrases : AddWakeWord(w)
  \/ \E w \in WakePhrases : RemoveWakeWord(w)
  \/ GetWakeWords
  \/ \E kind \in {"append", "pop", "reverse"} : MutateReturned(kind, <<"x">>)

SpecWake == InitWake /\ [][NextWake]_vars

\* A transcript lower-cased, without the characters that are neither
\* alphanumeric nor whitespace.
IsAlphanumeric(c) ==
  \/ \E i \in 1..Len(LowerLetters) : LowerLetters[i] = c \/ UpperLetters[i] = c
  \/ c \in Digits

PlainForm(transcription) ==
  SelectSeq(Lower(transcription), LAMBDA c : IsAlphanumeric(c) \/ IsSpace(c))

(***************************************************************************)
(* C19: detect is case- and punctuation-insensitive: for every phrase list *)
(* and every two transcripts that are equal once lower-cased and rid of    *)
(* the characters that are neither alphanumeric nor whitespace, detect     *)
(* gives the same answer.                                                  *)
(***************************************************************************)
C19_DetectInsensitive ==
  \A t1 \in DOMAIN w_seen, t2 \in DOMAIN w_seen :
    PlainForm(t1) = PlainForm(t2) => w_seen[t1] = w_seen[t2]

\* The same for the phrase lists that hold no empty phrase.
DetectInsensitiveOnPhrases ==
  ~IsStored(wake_words, <<>>) =>
    \A t1 \in DOMAIN w_seen, t2 \in DOMAIN w_seen :
      PlainForm(t1) = PlainForm(t2) => w_seen[t1] = w_seen[t2]

(***************************************************************************)
(* C20: in every state reached from construction, with the default list or *)
(* a list of the caller, by add_wake_word and remove_wake_word, every      *)
(* stored phrase is lowercase and trimmed and no two stored phrases are    *)
(* equal.                                                                  *)
(***************************************************************************)
C20_PhrasesNormalisedAndUnique ==
  /\ \A i \in 1..Len(wake_words) : wake_words[i] = NormalisePhrase(wake_words[i])
  /\ \A i, j \in 1..Len(wake_words) : i # j => wake_words[i] # wake_words[j]

\* Every stored phrase is lowercase and trimmed.
PhrasesNormalised ==
  \A i \in 1..Len(wake_words) : wake_words[i] = NormalisePhrase(wake_words[i])

NoDuplicates(words) ==
  \A i, j \in 1..Len(words) : i # j => words[i] # words[j]

(***************************************************************************)
(* C21: adding a wake phrase makes it detectable: after add_wake_word(p),  *)
(* for any phrase p, detect(t) is true for every transcript t that         *)
(* contains p, in any letter case.                                         *)
(***************************************************************************)
C21_AddedPhraseDetected ==
  [][ ( /\ w_last.op = "add_wake_word"
        /\ w_last'.op = "detect"
        /\ IsSubstring(Lower(w_last.arg), Lower(w_last'.arg)) )
      => w_last'.result ]_vars

\* The same for the phrases made of letters, digits and whitespace only.
AddedPlainPhraseDetected ==
  [][ ( /\ w_last.op = "add_wake_word"
        /\ PlainForm(w_last.arg) = Lower(w_last.arg)
        /\ w_last'.op = "detect"
        /\ IsSubstring(Lower(w_last.arg), Lower(w_last'.arg)) )
      => w_last'.result ]_vars

(***************************************************************************)
(* C22: removing a wake phrase prevents its detection: after               *)
(* remove_wake_word(p), however the detector was built, the normalised p   *)
(* is not in the list, and detect(t) is false for every transcript t whose *)
(* normalised form contains p and no other stored phrase.                  *)
(***************************************************************************)
C22_RemovedPhraseNotDetected ==
  [][ /\ (w_last'.n # w_last.n /\ w_last'.op = "remove_wake_word")
           => ~IsStored(wake_words', NormalisePhrase(w_last'.arg))
      /\ ( /\ w_last.op = "remove_wake_word"
           /\ w_last'.op = "detect"
           /\ IsSubstring(NormalisePhrase(w_last.arg), PlainForm(w_last'.arg))
           /\ \A i \in 1..Len(wake_words) :
                wake_words[i] # NormalisePhrase(w_last.arg)
                  => ~IsSubstring(wake_words[i], PlainForm(w_last'.arg)) )
           => ~w_last'.result ]_vars

\* The same for the lists that hold no phrase twice.
RemovedPhraseNotDetectedWithoutDuplicates ==
  [][ /\ ( /\ w_last'.n # w_last.n
           /\ w_last'.op = "remove_wake_word"
           /\ NoDuplicates(wake_words) )
           => ~IsStored(wake_words', NormalisePhrase(w_last'.arg))
      /\ ( /\ w_last.op = "remove_wake_word"
           /\ ~IsStored(wake_words, NormalisePhrase(w_last.arg))
           /\ w_last'.op = "detect"
           /\ IsSubstring(NormalisePhrase(w_last.arg), PlainForm(w_last'.arg))
           /\ \A i \in 1..Len(wake_words) :
                wake_words[i] # NormalisePhrase(w_last.arg)
                  => ~IsSubstring(wake_words[i], PlainForm(w_last'.arg)) )
           => ~w_last'.result ]_vars

(***************************************************************************)
(* C28: add_wake_word of a phrase whose normalised form is stored, and     *)
(* remove_wake_word of a phrase whose normalised form is not stored, leave *)
(* the phrase list as it was: same entries, same order.                    *)
(***************************************************************************)
C28_AddStoredRemoveAbsentAreNoOps ==
  [][ ( /\ w_last'.n # w_last.n
        /\ \/ /\ w_last'.op = "add_wake_word"
              /\ IsStored(wake_words, NormalisePhrase(w_last'.arg))
           \/ /\ w_last'.op = "remove_wake_word"
              /\ ~IsStored(wake_words, NormalisePhrase(w_last'.arg)) )
      => wake_words' = wake_words ]_vars

\* A phrase stored under another spelling has just been added again.
C28_Witness ==
  /\ w_last.op = "add_wake_word"
  /\ w_last.was_stored
  /\ w_last.arg # NormalisePhrase(w_last.arg)
  /\ Len(wake_words) >= 2

(***************************************************************************)
(* C29: get_wake_words returns an independent copy: it returns the stored  *)
(* phrases, and appending to, removing from or reordering the returned     *)
(* list changes neither the stored list nor what detect answers.           *)
(***************************************************************************)
C29_ReturnedListIsACopy ==
  [][ /\ (w_last'.n # w_last.n /\ w_last'.op = "get_wake_words")
           => (w_last'.result = wake_words /\ wake_words' = wake_words)
      /\ ( /\ w_last'.n # w_last.n
           /\ w_last'.op \in {"caller_append", "caller_pop", "caller_reverse"} )
           => ( /\ wake_words' = wake_words
                /\ \A t \in WakeTranscripts :
                     Detect(wake_words', t) = Detect(wake_words, t) ) ]_vars

\* The caller has changed the list it was given, which now differs from the
\* stored one.
C29_Witness ==
  /\ w_last.op \in {"caller_append", "caller_pop", "caller_reverse"}
  /\ w_returned.held
  /\ w_returned.value # wake_words
  /\ wake_words # <<>>


(***************************************************************************)
(* The /wake handler of main.py and the detector it uses, which main.py    *)
(* builds from the WAKE_WORDS list of config.py.                           *)
(***************************************************************************)
\* The second argument of os.getenv("WAKE_WORDS", ...).
DefaultWakeEnv ==
  <<"h", "e", "y", " ", "l", "u", "c", "y", ",",
     "h", "i", " ", "l", "u", "c", "y", ",",
     "o", "k", " ", "l", "u", "c", "y", ",",
     "o", "k", "a", "y", " ", "l", "u", "c", "y">>

\* WAKE_WORDS values of the environment.
WakeOverrides == { <<"h", ",">>, <<"H", " ", ",", "h">>, <<>> }

NoOverride == [set |-> FALSE, value |-> <<>>]

WakeEnvs == {NoOverride} \cup {[set |-> TRUE, value |-> v] : v \in WakeOverrides}

\* os.getenv("WAKE_WORDS", default).
Getenv(env) == IF env.set THEN env.value ELSE DefaultWakeEnv

\* The position of the k-th sep in s; 0 for k = 0 and Len(s) + 1 past the last.
SepPos(s, sep, k) ==
  LET at == {i \in 1..Len(s) : s[i] = sep}
  IN  IF k = 0 THEN 0
      ELSE IF k > Cardinality(at) THEN Len(s) + 1
      ELSE CHOOSE i \in at : Cardinality({j \in at : j <= i}) = k

\* s.split(sep) for a one-character sep.
Split(s, sep) ==
  [k \in 1..(Cardinality({i \in 1..Len(s) : s[i] = sep}) + 1) |->
     SubSeq(s, SepPos(s, sep, k - 1) + 1, SepPos(s, sep, k) - 1)]

\* WAKE_WORDS of config.py.
ConfigWakeWords(env) ==
  LET parts == Split(Getenv(env), ",")
  IN  [i \in 1..Len(parts) |-> Strip(parts[i])]

\* What stt_engine.transcribe hears in a clip.
HeyLuceAreYouThere ==
  <<"h", "e", "y", " ", "l", "u", "c", "e", " ", "a", "r", "e", " ", "y", "o", "u", " ", "t", "h", "e", "r", "e">>

HelloThereGeneralKenobi ==
  <<"h", "e", "l", "l", "o", " ", "t", "h", "e", "r", "e", " ", "g", "e", "n", "e", "r", "a", "l", " ", "k", "e", "n", "o", "b", "i">>

Heard == { <<>>, HeyLuceAreYouThere, HelloThereGeneralKenobi, <<"h", "!">> }

InitWakeEndpoint ==
  /\ \E env \in WakeEnvs :
       /\ wake_words = ConstructedWakeWords(ConfigWakeWords(env))
       /\ w_last = [op |-> "init", n |-> 0, env |-> env]
  /\ w_seen = <<>>
  /\ w_returned = NoList
  /\ stt_mode \in {"unavailable", "no_engine", "ok"}
  /\ tts_on = TRUE
  /\ pc = <<>>
  /\ req = <<>>
  /\ loop = NoReq
  /\ local = <<>>
  /\ snap = <<>>
  /\ started = 0
  /\ collab = <<>>
  /\ CMIdle /\ ParseIdle /\ TTSIdle /\ KeyIdle

\* The body /wake answers with.
WakeBody(detected, transcription, words) ==
  [wake_word_detected |-> detected, transcription |-> transcription,
   wake_words |-> words]

NoBody == [detail |-> "error"]

\* Whether process_speech raises ValueError: transcribe raised, or the text
\* is empty or blank.
SpeechRejected(raises, heard) == raises \/ IsBlank(heard)

\* detect_wake_word for a clip of size bytes in which transcribe hears
\* heard, or raises.
WakeResponse(mode, words, size, raises, heard) ==
  IF mode # "ok" THEN [status |-> 503, body |-> NoBody]
  ELSE IF AudioRejected(size) \/ SpeechRejected(raises, heard)
  THEN [status |-> 200, body |-> WakeBody(FALSE, <<>>, words)]
  ELSE [status |-> 200,
        body |-> WakeBody(Detect(words, Strip(heard)), Strip(heard), words)]

WakeRequest(size, raises, heard) ==
  /\ w_last.n < MaxWakeCalls
  /\ w_last' = [op |-> "wake", n |-> w_last.n + 1, size |-> size,
                raised |-> raises, heard |-> heard,
                transcribed |-> stt_mode = "ok" /\ ~AudioRejected(size),
                response |-> WakeResponse(stt_mode, wake_words, size, raises, heard)]
  /\ w_seen' = IF stt_mode = "ok" /\ ~AudioRejected(size) /\ ~SpeechRejected(raises, heard)
               THEN DictPut(w_seen, Strip(heard), Detect(wake_words, Strip(heard)))
               ELSE w_seen
  /\ UNCHANGED <<wake_words, w_returned>>
  /\ UNCHANGED <<cmVars, parseVars, ttsVars, keyVars, turnVars>>

NextWakeEndpoint ==
  \/ \E size \in AudioSizes, heard \in Heard : WakeRequest(size, FALSE, heard)
  \/ \E size \in AudioSizes : WakeRequest(size, TRUE, <<>>)
  \/ \E transcription \in Heard : DetectCall(transcription)
  \/ \E w \in WakePhrases : AddWakeWord(w)

SpecWakeEndpoint == InitWakeEndpoint /\ [][NextWakeEndpoint]_vars

\* The answers /wake gives to a clip of valid size in which no wake phrase
\* was detected.
NotDetectedAnswers ==
  {a \in {WakeResponse("ok", wake_words, MinAudioBytes, raises, heard) :
             raises \in BOOLEAN, heard \in Heard} :
     ~a.body.wake_word_detected}

(***************************************************************************)
(* C34: on /wake, audio that is undersized or oversized is reported to the *)
(* caller as an input error (the status of a ValueError), and the answer   *)
(* differs from every answer given to a clip of valid size in which no     *)
(* wake phrase was detected.                                               *)
(***************************************************************************)
C34_InvalidWakeAudioReported ==
  [][(w_last'.op = "wake" /\ stt_mode = "ok" /\ AudioRejected(w_last'.size))
       => /\ w_last'.response.status = InputErrorStatus
          /\ w_last'.response \notin NotDetectedAnswers]_vars

\* What the handler does with such a clip: it is answered before transcribe
\* is called, as "not detected", with an empty transcription.
InvalidWakeAudioAnsweredNotDetected ==
  [][(w_last'.op = "wake" /\ stt_mode = "ok" /\ AudioRejected(w_last'.size))
       => /\ w_last'.response = [status |-> 200, body |-> WakeBody(FALSE, <<>>, wake_words)]
          /\ ~w_last'.transcribed
          /\ w_seen' = w_seen]_vars


\* The first call made on the detector main.py built, WAKE_WORDS not set in
\* the environment.
FirstCallUnderDefaultConfiguration ==
  /\ w_last.op = "init"
  /\ w_last.env = NoOverride
  /\ w_last'.n = 1

(***************************************************************************)
(* C35: the detector /wake uses under default configuration (WAKE_WORDS    *)
(* not set) returns true for "hey luce are you there" and false for        *)
(* "hello there general kenobi", called directly or through /wake with a   *)
(* valid clip in which that is heard.                                      *)
(***************************************************************************)
C35_DefaultDetectorScenario ==
  [][FirstCallUnderDefaultConfiguration =>
       /\ w_last'.op = "detect" =>
            /\ w_last'.arg = HeyLuceAreYouThere => w_last'.result
            /\ w_last'.arg = HelloThereGeneralKenobi => ~w_last'.result
       /\ (w_last'.op = "wake" /\ stt_mode = "ok" /\ ~AudioRejected(w_last'.size)
             /\ ~w_last'.raised) =>
            /\ w_last'.heard = HeyLuceAreYouThere =>
                 w_last'.response.body.wake_word_detected
            /\ w_last'.heard = HelloThereGeneralKenobi =>
                 ~w_last'.response.body.wake_word_detected]_vars

\* The half of it that holds: "hello there general kenobi" is not detected.
DefaultDetectorRejectsKenobi ==
  [][(FirstCallUnderDefaultConfiguration /\ w_last'.op = "detect"
        /\ w_last'.arg = HelloThereGeneralKenobi) => ~w_last'.result]_vars

\* Whether a stored phrase of at least one character occurs in text_clean.
NonEmptyPhraseOccurs(words, transcription) ==
  \E i \in 1..Len(words) :
    /\ words[i] # <<>>
    /\ IsSubstring(words[i], TextClean(transcription))

(***************************************************************************)
(* C40: detect(t) is true only if a configured phrase of at least one      *)
(* character occurs in the normalised transcript, for every phrase list    *)
(* reached through the constructor, the WAKE_WORDS parsing of config.py    *)
(* and add_wake_word, lists with an empty phrase included.                 *)
(***************************************************************************)
C40_DetectedOnlyByNonEmptyPhrase ==
  \A t \in DOMAIN w_seen : w_seen[t] => NonEmptyPhraseOccurs(wake_words, t)

\* The same for the lists that hold no empty phrase.
DetectedOnlyByPhrase ==
  ~IsStored(wake_words, <<>>) =>
    \A t \in DOMAIN w_seen : w_seen[t] => NonEmptyPhraseOccurs(wake_words, t)

=============================================================================
